---- MODULE Spec2Model ----
(***************************************************************************)
(* Model of the two-stage content filter (src/src/content_analyzer_v2.py)  *)
(* and of the smart backfill orchestrator (src/src/smart_backfill.py).     *)
(*                                                                         *)
(* Time is time.time() in seconds.  The clock advances in steps of         *)
(* TickSecs (half an hour), so "exactly one hour later" and "more than one *)
(* hour later" are both reachable.                                         *)
(***************************************************************************)
EXTENDS Integers, Sequences, FiniteSets, TLC

VARIABLES
    now,                 \* time.time()
    relevance_threshold, \* self.relevance_threshold
    max_approvals_per_hour, \* self.max_approvals_per_hour
    max_per_author_6h,   \* self.max_per_author_6h
    hourly_approvals,    \* self.hourly_approvals
    last_hour_reset,     \* self.last_hour_reset
    author_approvals,    \* self.author_approvals: author -> <<timestamps>>
    metrics,             \* the module-level FilteringMetrics instance
    pc,                  \* per coroutine: "idle" or "ai_call" (suspended in ai_filter)
    cur,                 \* per coroutine: the post of the invocation in flight
    decision,            \* the FilterDecision returned by the latest completed invocation
    call,                \* what that invocation saw: tweet, rate check, classifier response
    approval_log,        \* every commit so far: <<[author, time, window]>>
    settings,            \* the backfill settings read by SmartBackfillOrchestrator
    run,                 \* the locals of the find_relevant_tweets call in progress
    attempt_logs,        \* self.attempt_logs
    result               \* the BackfillResult returned, once the run is over

config == <<relevance_threshold, max_approvals_per_hour, max_per_author_6h>>

backfill == <<settings, run, attempt_logs, result>>

vars == <<now, config, hourly_approvals, last_hour_reset,
          author_approvals, metrics, pc, cur, decision, call, approval_log,
          backfill>>

-----------------------------------------------------------------------------
(* Bounds of the model *)

MaxTicks == 3           \* Spec: the clock stops after MaxTicks half-hours
MaxCalls == 2           \* Spec: analyze_tweet invocations per behaviour
MaxRateHours == 7       \* SpecRate: the clock stops after MaxRateHours hours
MaxRateCalls == 3       \* SpecRate: analyze_tweet invocations per behaviour
MaxConcTicks == 3       \* SpecConc: half-hours
MaxConcCalls == 3       \* SpecConc: analyze_tweet invocations per behaviour
MaxBackfillSteps == 1   \* SpecBackfill: the clock stops after so many steps of two hours
MaxTimeoutTicks == 2    \* SpecTimeout: half-hours
MaxTimeoutCalls == 3    \* SpecTimeout: analyze_tweet invocations per behaviour
MaxRuns == 2            \* SpecTelemetry: find_relevant_tweets calls per behaviour
MaxCaseHours == 2       \* SpecCase: hours
MaxCaseCalls == 3       \* SpecCase: analyze_tweet invocations per behaviour

(* Program constants and configuration *)

HourSecs == 3600                       \* content_analyzer_v2.py:255
SixHoursSecs == 6 * 3600               \* content_analyzer_v2.py:265
TickSecs == HourSecs \div 2

Thresholds == {80, 96}                 \* values of settings.relevance_threshold

Min(a, b) == IF a <= b THEN a ELSE b
Max(a, b) == IF a >= b THEN a ELSE b

-----------------------------------------------------------------------------
(* Candidate posts.  A text is represented by what the quick filter reads  *)
(* of it: lengths, token counts and which patterns match.                  *)

Text(rawLen, tokens, hashtags, normLen, blacklist, tech, rt, qt) ==
    [rawLen |-> rawLen, tokens |-> tokens, hashtags |-> hashtags,
     normLen |-> normLen, blacklist |-> blacklist, tech |-> tech,
     rt |-> rt, qt |-> qt]

TechText      == Text(120, 18, 1, 110, FALSE, TRUE,  FALSE, FALSE)
ShortText     == Text(2,   1,  0, 2,   FALSE, TRUE,  FALSE, FALSE)
HashtagText   == Text(40,  5,  3, 38,  FALSE, TRUE,  FALSE, FALSE)
LinkOnlyText  == Text(34,  2,  0, 9,   FALSE, FALSE, FALSE, FALSE)
SunsetText    == Text(30,  6,  0, 30,  TRUE,  FALSE, FALSE, FALSE)
RetweetText   == Text(45,  8,  0, 36,  FALSE, FALSE, TRUE,  FALSE)
QuoteText     == Text(45,  8,  0, 45,  FALSE, FALSE, FALSE, TRUE)
PlainText     == Text(45,  8,  0, 45,  FALSE, FALSE, FALSE, FALSE)
RetweetTech   == Text(60,  10, 0, 50,  FALSE, TRUE,  TRUE,  FALSE)

Texts == {TechText, ShortText, HashtagText, LinkOnlyText, SunsetText,
          RetweetText, QuoteText, PlainText, RetweetTech}

Authors == {"alice", "bob"}

\* author_username is None (a null screen_name of the feed): .lower() raises
NoAuthor == "<None>"

\* A ScrapedTweet, with the fields the filter reads.  author is
\* author_username; media_twitter says that some entry of media_urls
\* contains "twitter.com".
MkTweet(id, author, text, is_quote, media_twitter) ==
    [tweet_id |-> id, author |-> author, text |-> text,
     is_quote |-> is_quote, media_twitter |-> media_twitter,
     created_at |-> "recent"]

TweetShapes(id, author) ==
    {MkTweet(id, author, t, FALSE, FALSE) : t \in Texts}
      \cup {MkTweet(id, author, PlainText, TRUE, FALSE),
            MkTweet(id, author, PlainText, FALSE, TRUE)}

\* The posts handed to a free-standing analyze_tweet call
Tweets == TweetShapes(1, "alice") \cup {MkTweet(1, "bob", TechText, FALSE, FALSE)}

NoTweet == MkTweet(0, "", ShortText, FALSE, FALSE)

-----------------------------------------------------------------------------
(* quick_filter and its helpers *)

\* compute_hashtag_ratio(raw_text) > 0.4, with hashtags / (tokens or 1)
HashtagRatioExceeds(t) ==
    LET total == IF t.tokens = 0 THEN 1 ELSE t.tokens
    IN  t.rawLen > 0 /\ 10 * t.hashtags > 4 * total

\* is_quote_tweet: "QT" in tweet.text, or a media url holding "twitter.com"
is_quote_tweet(tweet) == tweet.text.qt \/ tweet.media_twitter

\* reads the rate-limit state: rejects once the hourly counter is in use
quick_filter_stateful(tweet) ==
    IF hourly_approvals > 0 THEN <<TRUE, "short">>
    ELSE IF tweet.text.tech THEN <<FALSE, "">> ELSE <<TRUE, "no_tech_hints">>

\* looks for technical keywords before the blacklist and the retweet rule
quick_filter_techfirst(tweet) ==
    LET t == tweet.text IN
    IF t.rawLen < 30 THEN <<TRUE, "short">>
    ELSE IF HashtagRatioExceeds(t) THEN <<TRUE, "hashtag_spam">>
    ELSE IF t.normLen < 15 THEN <<TRUE, "no_substance">>
    ELSE IF ~t.tech THEN <<TRUE, "no_tech_hints">>
    ELSE IF t.blacklist THEN <<TRUE, "blacklist_keyword">>
    ELSE <<FALSE, "">>

quick_filter(tweet) ==
    LET t == tweet.text IN
    IF t.rawLen < 30 THEN <<TRUE, "short">>
    ELSE IF HashtagRatioExceeds(t) THEN <<TRUE, "hashtag_spam">>
    ELSE IF t.normLen < 15 THEN <<TRUE, "no_substance">>
    ELSE IF t.blacklist THEN <<TRUE, "blacklist_keyword">>
    ELSE IF t.rt /\ ~t.tech THEN <<TRUE, "retweet_no_tech">>
    ELSE IF is_quote_tweet(tweet) /\ ~t.tech THEN <<TRUE, "quote_no_tech">>
    ELSE IF ~t.tech THEN <<TRUE, "no_tech_hints">>
    ELSE <<FALSE, "">>

-----------------------------------------------------------------------------
(* _check_rate_limits.  The rate-limit state is passed and returned as a   *)
(* record rl = [hourly, last_reset, authors].                              *)

RL == [hourly |-> hourly_approvals, last_reset |-> last_hour_reset,
       authors |-> author_approvals]

\* resets on every check
HourElapsed_always(t, last_reset) == t - last_reset >= 0

\* now - self.last_hour_reset > 3600
HourElapsed(t, last_reset) == t - last_reset > HourSecs

\* off by one: blocks only above the cap
HourlyLimitReached_above(n) == n > max_approvals_per_hour

\* self.hourly_approvals >= self.max_approvals_per_hour
HourlyLimitReached(n) == n >= max_approvals_per_hour

\* prunes with the one-hour window
InSixHourWindow_hour(ts, t) == ts > t - HourSecs

\* ts > six_hours_ago
InSixHourWindow(ts, t) == ts > t - SixHoursSecs

\* len(self.author_approvals[author]) >= self.max_per_author_6h
PerAuthorLimitReached(n) == n >= max_per_author_6h

\* prunes nothing
PruneOld_keep(stamps, t) == stamps

PruneOld(stamps, t) == SelectSeq(stamps, LAMBDA ts : InSixHourWindow(ts, t))

\* keeps the handle as it is written
Lower_same(handle) == handle

\* author_username.lower(), on the handles of the model: the handles written
\* with capitals become the all-lowercase handle, the others are lowercase
Lower(handle) ==
    IF handle \in {"Alice", "ALICE"} THEN "alice"
    ELSE IF handle = "Bob" THEN "bob"
    ELSE handle

\* counts the post as approved when it lets it through
check_rate_limits_records(rl, tweet, t) ==
    IF HourlyLimitReached(rl.hourly)
    THEN [blocked |-> TRUE, reason |-> "hourly_limit", raised |-> FALSE, rl |-> rl]
    ELSE [blocked |-> FALSE, reason |-> "", raised |-> FALSE,
          rl |-> [rl EXCEPT !.hourly = @ + 1]]

\* The state after the check and its result (blocked, reason).  The hourly
\* part runs before tweet.author_username.lower(), which raises
\* AttributeError when the post has no author: raised says so.
check_rate_limits(rl, tweet, t) ==
    LET reset   == HourElapsed(t, rl.last_reset)
        hourly  == IF reset THEN 0 ELSE rl.hourly
        last    == IF reset THEN t ELSE rl.last_reset
        author  == Lower(tweet.author)
        known   == author \in DOMAIN rl.authors
        pruned  == IF known THEN PruneOld(rl.authors[author], t) ELSE <<>>
        authors == IF known THEN [rl.authors EXCEPT ![author] = pruned]
                   ELSE rl.authors
    IN  IF HourlyLimitReached(hourly)
        THEN [blocked |-> TRUE, reason |-> "hourly_limit", raised |-> FALSE,
              rl |-> [hourly |-> hourly, last_reset |-> last, authors |-> rl.authors]]
        ELSE IF tweet.author = NoAuthor
        THEN [blocked |-> FALSE, reason |-> "AttributeError", raised |-> TRUE,
              rl |-> [hourly |-> hourly, last_reset |-> last, authors |-> rl.authors]]
        ELSE IF known /\ PerAuthorLimitReached(Len(pruned))
        THEN [blocked |-> TRUE, reason |-> "per_author_limit", raised |-> FALSE,
              rl |-> [hourly |-> hourly, last_reset |-> last, authors |-> authors]]
        ELSE [blocked |-> FALSE, reason |-> "", raised |-> FALSE,
              rl |-> [hourly |-> hourly, last_reset |-> last, authors |-> authors]]

\* commits without counting the approval in the hourly counter
CommitApproval_nocount(rl, tweet, t) ==
    LET author == Lower(tweet.author)
        old    == IF author \in DOMAIN rl.authors THEN rl.authors[author] ELSE <<>>
    IN  [hourly |-> rl.hourly, last_reset |-> rl.last_reset,
         authors |-> [a \in DOMAIN rl.authors \cup {author} |->
                        IF a = author THEN Append(old, t) ELSE rl.authors[a]]]

\* The commit of analyze_tweet: hourly_approvals += 1 and the author's list
\* gets time.time() appended
CommitApproval(rl, tweet, t) ==
    LET author == Lower(tweet.author)
        old    == IF author \in DOMAIN rl.authors THEN rl.authors[author] ELSE <<>>
    IN  [hourly |-> rl.hourly + 1, last_reset |-> rl.last_reset,
         authors |-> [a \in DOMAIN rl.authors \cup {author} |->
                        IF a = author THEN Append(old, t) ELSE rl.authors[a]]]

-----------------------------------------------------------------------------
(* ai_filter.  What the text-generation call does is an input: it raises,  *)
(* or returns a content string that is or is not JSON of the expected      *)
(* shape.                                                                  *)

Raises(kind) ==
    [kind |-> kind, relevance_numeric |-> FALSE, relevance |-> 0,
     approved |-> "invalid", categories_ok |-> FALSE, reason_len |-> 0]

\* content that json.loads turns into a dict
Object(relevance_numeric, relevance, approved, categories_ok, reason_len) ==
    [kind |-> "object", relevance_numeric |-> relevance_numeric,
     relevance |-> relevance, approved |-> approved,
     categories_ok |-> categories_ok, reason_len |-> reason_len]

Responses ==
    { Raises("asyncio_timeout"),  \* asyncio.TimeoutError
      Raises("api_error"),        \* any other exception of the client call
      Raises("no_content"),       \* message.content is None: AttributeError
      Raises("bad_json"),         \* json.loads raises JSONDecodeError
      Raises("non_object") }      \* valid JSON, not a dict: TypeError at **data
    \cup { Object(TRUE, r, "true", TRUE, 20) : r \in {79, 80, 95, 96} }
    \cup { Object(TRUE, 95, "false", TRUE, 20),
           Object(TRUE, 95, "true", TRUE, 0),
           Object(TRUE, 101, "true", TRUE, 20),
           Object(TRUE, 0 - 1, "true", TRUE, 20),
           Object(FALSE, 0, "true", TRUE, 20),
           Object(TRUE, 95, "invalid", TRUE, 20),
           Object(TRUE, 95, "true", FALSE, 20),
           Object(TRUE, 95, "true", TRUE, 81) }

NoResponse == Raises("none")

\* AIFilterResponse(**data) validates
SchemaValid(resp) ==
    /\ resp.kind = "object"
    /\ resp.relevance_numeric /\ resp.relevance >= 0 /\ resp.relevance <= 100
    /\ resp.approved \in {"true", "false"}
    /\ resp.categories_ok
    /\ resp.reason_len <= 80

\* trusts the model's own boolean
ThresholdPassed_trust(relevance, threshold) == TRUE

\* a relevance equal to the threshold does not pass
ThresholdPassed_strict(relevance, threshold) == relevance > threshold

\* relevance >= self.relevance_threshold
ThresholdPassed(relevance, threshold) == relevance >= threshold

\* (approved, relevance_score, reason) and the counter the call bumps.
\* A reason is the sequence of its parts: <<"below_threshold", 79, 80>> is
\* "below_threshold(79%<80%)", <<"parse_error", "ValidationError">> is
\* "parse_error:ValidationError".
AiResult(approved, score, reason, bump) ==
    [approved |-> approved, score |-> score, reason |-> reason, bump |-> bump]

\* fails open
ErrorResult_open(reason, bump) == AiResult(TRUE, 0, reason, bump)

\* The return of each except branch: return False, 0.0, [], reason
ErrorResult(reason, bump) == AiResult(FALSE, 0, reason, bump)

ai_filter(resp, threshold) ==
    IF resp.kind = "asyncio_timeout"
    THEN ErrorResult(<<"timeout">>, "timeouts")
    ELSE IF resp.kind = "api_error"
    THEN ErrorResult(<<"error", "APIError">>, "none")
    ELSE IF resp.kind = "client_timeout"
    THEN ErrorResult(<<"error", "APITimeoutError">>, "none")
    ELSE IF resp.kind = "no_content"
    THEN ErrorResult(<<"error", "AttributeError">>, "none")
    ELSE IF resp.kind = "bad_json"
    THEN ErrorResult(<<"parse_error", "JSONDecodeError">>, "parse_errors")
    ELSE IF resp.kind = "non_object"
    THEN ErrorResult(<<"error", "TypeError">>, "none")
    ELSE IF ~SchemaValid(resp)
    THEN ErrorResult(<<"parse_error", "ValidationError">>, "parse_errors")
    ELSE
      LET relevance      == Max(0, Min(100, resp.relevance))
          approved       == resp.approved = "true"
          final_approved == approved /\ ThresholdPassed(relevance, threshold)
          reason == IF ~final_approved /\ approved
                    THEN <<"below_threshold", relevance, threshold>>
                    ELSE IF resp.reason_len = 0 THEN <<"no reason">>
                    ELSE <<"model_reason">>
      IN  AiResult(final_approved, relevance, reason, "none")

-----------------------------------------------------------------------------
(* analyze_tweet.  The coroutine runs from its call to the await of         *)
(* ai_filter (AnalyzeStart) and from the classifier's answer to its return  *)
(* (AnalyzeFinish); a quick reject or a rate-limit block returns in the     *)
(* first step.                                                              *)

Procs == {1, 2}

None == <<>>            \* Optional[float] None; a score s is <<s>>

\* The FilterDecision record, without processing_time_ms and created_at,
\* which nothing reads
FilterDecision(tweet, stage_quick, quick_reason, stage_ai, ai_score, ai_reason, final) ==
    [tweet_id |-> tweet.tweet_id, stage_quick |-> stage_quick,
     quick_reason |-> quick_reason, stage_ai |-> stage_ai, ai_score |-> ai_score,
     ai_reason |-> ai_reason, final |-> final]

NoDecision ==
    [tweet_id |-> 0, stage_quick |-> "", quick_reason |-> "", stage_ai |-> "",
     ai_score |-> None, ai_reason |-> <<>>, final |-> ""]

\* What the latest completed invocation saw; raised is the exception that
\* ended it, "" when it returned a decision
CallRecord(p, tweet, quick_rejected, rate_blocked, resp, raised) ==
    [proc |-> p, tweet |-> tweet, quick_rejected |-> quick_rejected,
     rate_blocked |-> rate_blocked, resp |-> resp, raised |-> raised]

NoCall == CallRecord(0, NoTweet, FALSE, FALSE, NoResponse, "")

Bump(m, counter) == [m EXCEPT ![counter] = @ + 1]

SetRL(rl) ==
    /\ hourly_approvals' = rl.hourly
    /\ last_hour_reset' = rl.last_reset
    /\ author_approvals' = rl.authors

\* runs the rate-limit check before returning the quick reject
QuickReject_checks(p, tweet, m, reason) ==
    /\ metrics' = Bump(m, "quick_rejects")
    /\ decision' = FilterDecision(tweet, "reject", reason, "skipped",
                                  None, <<>>, "rejected")
    /\ call' = CallRecord(p, tweet, TRUE, FALSE, NoResponse, "")
    /\ SetRL(check_rate_limits(RL, tweet, now).rl)
    /\ UNCHANGED <<pc, cur>>

\* Stage 1 rejected: the decision is returned at once
QuickReject(p, tweet, m, reason) ==
    /\ metrics' = Bump(m, "quick_rejects")
    /\ decision' = FilterDecision(tweet, "reject", reason, "skipped",
                                  None, <<>>, "rejected")
    /\ call' = CallRecord(p, tweet, TRUE, FALSE, NoResponse, "")
    /\ UNCHANGED <<hourly_approvals, last_hour_reset, author_approvals, pc, cur>>

\* a blocked post goes to the classifier all the same
RateBlock_proceeds(p, tweet, m, chk) ==
    /\ SetRL(chk.rl)
    /\ metrics' = m
    /\ pc' = [pc EXCEPT ![p] = "ai_call"]
    /\ cur' = [cur EXCEPT ![p] = tweet]
    /\ UNCHANGED <<decision, call>>

\* Stage 2 blocked: the decision is returned at once
RateBlock(p, tweet, m, chk) ==
    /\ SetRL(chk.rl)
    /\ metrics' = Bump(m, IF chk.reason = "hourly_limit"
                          THEN "hourly_blocks" ELSE "per_author_blocks")
    /\ decision' = FilterDecision(tweet, "pass", "", "reject",
                                  None, <<chk.reason>>, "rejected")
    /\ call' = CallRecord(p, tweet, FALSE, TRUE, NoResponse, "")
    /\ UNCHANGED <<pc, cur>>

\* _check_rate_limits raised: the exception leaves analyze_tweet, which
\* returns no decision
RateCheckRaises(p, tweet, m, chk) ==
    /\ SetRL(chk.rl)
    /\ metrics' = m
    /\ call' = CallRecord(p, tweet, FALSE, FALSE, NoResponse, chk.reason)
    /\ UNCHANGED <<pc, cur, decision>>

\* Stage 3: the coroutine is suspended in await self.ai_filter(tweet)
CallClassifier(p, tweet, m, chk) ==
    /\ SetRL(chk.rl)
    /\ metrics' = m
    /\ pc' = [pc EXCEPT ![p] = "ai_call"]
    /\ cur' = [cur EXCEPT ![p] = tweet]
    /\ UNCHANGED <<decision, call>>

AnalyzeStart(p, tweet) ==
    /\ pc[p] = "idle"
    /\ LET m     == Bump(metrics, "total_processed")
           quick == quick_filter(tweet)
           chk   == check_rate_limits(RL, tweet, now)
       IN  IF quick[1] THEN QuickReject(p, tweet, m, quick[2])
           ELSE IF chk.blocked THEN RateBlock(p, tweet, m, chk)
           ELSE IF chk.raised THEN RateCheckRaises(p, tweet, m, chk)
           ELSE CallClassifier(p, tweet, m, chk)
    /\ UNCHANGED <<now, config, approval_log>>

\* issues the classification call again instead of returning
AnalyzeFinish_retry(p, resp) ==
    /\ pc[p] = "ai_call"
    /\ metrics.ai_rejects < 2
    /\ metrics' = Bump(metrics, "ai_rejects")
    /\ UNCHANGED <<now, config, hourly_approvals, last_hour_reset,
                   author_approvals, pc, cur, decision, call, approval_log>>

AnalyzeFinish(p, resp) ==
    /\ pc[p] = "ai_call"
    /\ LET tweet == cur[p]
           r     == ai_filter(resp, relevance_threshold)
           m     == IF r.bump = "none" THEN metrics ELSE Bump(metrics, r.bump)
       IN  /\ IF r.approved
              THEN /\ metrics' = Bump(m, "approvals")
                   /\ SetRL(CommitApproval(RL, tweet, now))
                   /\ approval_log' = Append(approval_log,
                                             [author |-> tweet.author, time |-> now,
                                              window |-> last_hour_reset])
              ELSE /\ metrics' = Bump(m, "ai_rejects")
                   /\ UNCHANGED <<hourly_approvals, last_hour_reset,
                                  author_approvals, approval_log>>
           /\ decision' = FilterDecision(tweet,
                              "pass", "", IF r.approved THEN "pass" ELSE "reject",
                              <<r.score>>, r.reason,
                              IF r.approved THEN "approved" ELSE "rejected")
           /\ call' = CallRecord(p, tweet, FALSE, FALSE, resp, "")
    /\ pc' = [pc EXCEPT ![p] = "idle"]
    /\ cur' = [cur EXCEPT ![p] = NoTweet]
    /\ UNCHANGED <<now, config>>

\* time passes: step seconds, up to max_steps steps from the start
Advance(step, max_steps) ==
    /\ now + step <= max_steps * step
    /\ now' = now + step
    /\ UNCHANGED <<config, hourly_approvals, last_hour_reset,
                   author_approvals, metrics, pc, cur, decision, call, approval_log,
                   backfill>>

InitMetrics ==
    [total_processed |-> 0, quick_rejects |-> 0, ai_rejects |-> 0, approvals |-> 0,
     parse_errors |-> 0, timeouts |-> 0, per_author_blocks |-> 0,
     hourly_blocks |-> 0, last_reset |-> 0]

\* The analyzer after __init__, with the given settings
InitAnalyzer(thresholds, hourly_cap, author_cap) ==
    /\ now = 0
    /\ relevance_threshold \in thresholds
    /\ max_approvals_per_hour = hourly_cap
    /\ max_per_author_6h = author_cap
    /\ hourly_approvals = 0
    /\ last_hour_reset = 0
    /\ author_approvals = << >>
    /\ metrics = InitMetrics
    /\ pc = [p \in Procs |-> "idle"]
    /\ cur = [p \in Procs |-> NoTweet]
    /\ decision = NoDecision
    /\ call = NoCall
    /\ approval_log = << >>

NoRun ==
    [pc |-> "off", source_type |-> "list", search_query |-> "", target_count |-> 0,
     attempt |-> 0, list_portion |-> 0, search_portion |-> 0, seen_ids |-> {},
     approved_tweets |-> <<>>, window_minutes |-> 0, batch_size |-> 0,
     tweets |-> <<>>, fresh_tweets |-> <<>>, decisions |-> <<>>]

NoResult ==
    [approved_tweets |-> <<>>, stop_reason |-> "", total_analyzed |-> 0,
     attempts_made |-> 0, window_minutes_final |-> 0]

NoSettings ==
    [max_attempts |-> 0, max_multiplier |-> 0, start_window_min |-> 0,
     max_window_min |-> 0, min_approval_rate_pct |-> 0, batch_base |-> 0]

\* No backfill run: the analyzer is called directly
NoBackfill ==
    /\ settings = NoSettings
    /\ run = NoRun
    /\ attempt_logs = << >>
    /\ result = NoResult

-----------------------------------------------------------------------------
(* Spec: sequential analyze_tweet calls on posts and classifier answers of  *)
(* every kind.                                                              *)

Init == InitAnalyzer(Thresholds, 1, 1) /\ NoBackfill

Call ==
    /\ metrics.total_processed < MaxCalls
    /\ \E tweet \in Tweets : AnalyzeStart(1, tweet)
    /\ UNCHANGED backfill

Answer ==
    /\ \E resp \in Responses : AnalyzeFinish(1, resp)
    /\ UNCHANGED backfill

Tick == Advance(TickSecs, MaxTicks)

Next == Call \/ Answer \/ Tick

Spec == Init /\ [][Next]_vars

-----------------------------------------------------------------------------
(* SpecRate: sequential analyze_tweet calls on posts that pass the quick    *)
(* filter, over more than six hours.                                        *)

RateTweets == {MkTweet(1, a, TechText, FALSE, FALSE) : a \in Authors}

RateResponses == {Object(TRUE, 95, "true", TRUE, 20), Raises("api_error")}

InitRate == InitAnalyzer({80}, 2, 2) /\ NoBackfill

RateCall ==
    /\ metrics.total_processed < MaxRateCalls
    /\ \E tweet \in RateTweets : AnalyzeStart(1, tweet)
    /\ UNCHANGED backfill

RateAnswer ==
    /\ \E resp \in RateResponses : AnalyzeFinish(1, resp)
    /\ UNCHANGED backfill

RateTick == Advance(HourSecs, MaxRateHours)

NextRate == RateCall \/ RateAnswer \/ RateTick

SpecRate == InitRate /\ [][NextRate]_vars

-----------------------------------------------------------------------------
(* SpecPrune: the invocations of SpecRate with an hourly cap of 1, so that  *)
(* one author's approval fills the hour while another author's list holds   *)
(* an old timestamp.                                                        *)

InitPrune == InitAnalyzer({80}, 1, 2) /\ NoBackfill

SpecPrune == InitPrune /\ [][NextRate]_vars

-----------------------------------------------------------------------------
(* SpecConc: two coroutines share the analyzer and interleave at the await  *)
(* of ai_filter.                                                            *)

InitConc == InitAnalyzer({80}, 2, 1) /\ NoBackfill

ConcCall ==
    /\ metrics.total_processed < MaxConcCalls
    /\ \E p \in Procs : \E tweet \in RateTweets : AnalyzeStart(p, tweet)
    /\ UNCHANGED backfill

ConcAnswer ==
    /\ \E p \in Procs : \E resp \in RateResponses : AnalyzeFinish(p, resp)
    /\ UNCHANGED backfill

ConcTick == Advance(TickSecs, MaxConcTicks)

NextConc == ConcCall \/ ConcAnswer \/ ConcTick

SpecConc == InitConc /\ [][NextConc]_vars

-----------------------------------------------------------------------------
(* SpecTimeout: the text-generation service may leave a call unanswered.   *)
(* ai_filter awaits run_in_executor(None, lambda: create(...)) and sets no  *)
(* timeout of its own, so what happens then is up to the client library:    *)
(* the call never completes, or the client gives up and raises its own      *)
(* timeout error, which is not asyncio.TimeoutError.  Every step that is    *)
(* possible is eventually taken (weak fairness).                            *)

InitTimeout == InitAnalyzer({80}, 2, 2) /\ NoBackfill

TimeoutCall ==
    /\ metrics.total_processed < MaxTimeoutCalls
    /\ \E tweet \in RateTweets : AnalyzeStart(1, tweet)
    /\ UNCHANGED backfill

TimeoutAnswer ==
    /\ \E resp \in RateResponses : AnalyzeFinish(1, resp)
    /\ UNCHANGED backfill

\* no answer, and the client raises its timeout error
ClientGivesUp ==
    /\ AnalyzeFinish(1, Raises("client_timeout"))
    /\ UNCHANGED backfill

\* no answer, and the awaited call never completes
Hangs ==
    /\ pc[1] = "ai_call"
    /\ pc' = [pc EXCEPT ![1] = "hung"]
    /\ UNCHANGED <<now, config, hourly_approvals, last_hour_reset,
                   author_approvals, metrics, cur, decision, call, approval_log,
                   backfill>>

TimeoutTick == Advance(TickSecs, MaxTimeoutTicks)

NextTimeout == TimeoutCall \/ TimeoutAnswer \/ ClientGivesUp \/ Hangs \/ TimeoutTick

SpecTimeout == InitTimeout /\ [][NextTimeout]_vars /\ WF_vars(NextTimeout)

-----------------------------------------------------------------------------
(* SmartBackfillOrchestrator.find_relevant_tweets *)

\* leaves the estimate unclamped
calculate_batch_size_unclamped(target_count, approved_count, total_analyzed, attempt) ==
    IF attempt = 1 THEN target_count * 2
    ELSE IF total_analyzed = 0 THEN 15 * (target_count - approved_count)
    ELSE IF approved_count > 0
    THEN (3 * (target_count - approved_count) * total_analyzed) \div (2 * approved_count)
    ELSE (target_count - approved_count) * 3

\* _calculate_batch_size.  success_rate is approved_count / total_analyzed,
\* or 0.1 when nothing was analysed, so needed / success_rate * 1.5 is
\* 3 * needed * total / (2 * approved), or 15 * needed.
calculate_batch_size(target_count, approved_count, total_analyzed, attempt) ==
    IF attempt = 1
    THEN Max(settings.batch_base, target_count * 2)
    ELSE LET needed_tweets == target_count - approved_count
             estimated_batch ==
                 IF total_analyzed = 0 THEN 15 * needed_tweets
                 ELSE IF approved_count > 0
                 THEN (3 * needed_tweets * total_analyzed) \div (2 * approved_count)
                 ELSE needed_tweets * 3
         IN  Max(settings.batch_base, Min(estimated_batch, target_count * 4))

\* created_at is held as what _filter_by_age makes of the string:
\*   "recent"       a time of one of the four formats, within max_window_min;
\*   "old"          a time of one of the four formats, before the cutoff;
\*   "old_west"     a '%a %b %d %H:%M:%S +0000 %Y' time (UTC) older than
\*                  max_window_min by less than the host's offset west of UTC:
\*                  it is parsed as a naive time and cutoff_time is the naive
\*                  local datetime.now() - max_age_minutes, so it is not
\*                  before the cutoff;
\*   "old_noformat" a time older than max_window_min in a string that none of
\*                  the four formats matches (an offset other than +0000,
\*                  isoformat() with microseconds and no Z, the empty string).
\* strptime succeeds with one of the formats
Parses(created_at) == created_at # "old_noformat"

\* tweet_time < cutoff_time
BeforeCutoff(created_at) == created_at = "old"

\* _filter_by_age: a post whose created_at parses and is before the cutoff
\* is dropped; one that does not parse is kept
filter_by_age(tweets) ==
    SelectSeq(tweets, LAMBDA tw : ~(Parses(tw.created_at) /\ BeforeCutoff(tw.created_at)))

\* _enforce_existing_caps: _check_rate_limits on each post in turn; the
\* result is the rate-limit state it leaves and the posts it kept
RECURSIVE enforce_existing_caps(_, _, _)
enforce_existing_caps(rl, tweets, t) ==
    IF tweets = <<>> THEN [rl |-> rl, capped_tweets |-> <<>>]
    ELSE LET chk  == check_rate_limits(rl, Head(tweets), t)
             rest == enforce_existing_caps(chk.rl, Tail(tweets), t)
         IN  [rl |-> rest.rl,
              capped_tweets |-> IF chk.blocked THEN rest.capped_tweets
                                ELSE <<Head(tweets)>> \o rest.capped_tweets]

\* get_telemetry_summary: {} when there is no log; attempt_details repeats
\* the logs and final_approval_rate is the last approval_rate
get_telemetry_summary(logs) ==
    IF logs = <<>> THEN [empty |-> TRUE, attempts_made |-> 0, total_fetched |-> 0,
                         total_approved |-> 0]
    ELSE [empty |-> FALSE, attempts_made |-> Len(logs),
          total_fetched |-> logs[Len(logs)].cum_fetched,
          total_approved |-> logs[Len(logs)].cum_approved]

\* _log_attempt (approval_rate is cum_approved / cum_fetched * 100)
AttemptLog(attempt, fetched, approved, cum_fetched, cum_approved, window_minutes) ==
    [attempt |-> attempt, fetched |-> fetched, approved |-> approved,
     cum_fetched |-> cum_fetched, cum_approved |-> cum_approved,
     window_minutes |-> window_minutes]

\* approved_tweets[:target_count]
Truncate(tweets, n) == SubSeq(tweets, 1, Min(Len(tweets), n))

\* reports the approved posts as the posts analysed
BackfillResult_approved(approved_tweets, stop_reason, seen_ids, attempts_made, window) ==
    [approved_tweets |-> approved_tweets, stop_reason |-> stop_reason,
     total_analyzed |-> Len(approved_tweets), attempts_made |-> attempts_made,
     window_minutes_final |-> window]

\* BackfillResult (final_approval_rate is approved / seen * 100, lists_used
\* is the source given)
BackfillResult(approved_tweets, stop_reason, seen_ids, attempts_made, window) ==
    [approved_tweets |-> approved_tweets, stop_reason |-> stop_reason,
     total_analyzed |-> Cardinality(seen_ids), attempts_made |-> attempts_made,
     window_minutes_final |-> window]

\* meets the target only with more approved posts than asked for
StopReason_above(n_approved, n_seen, target_count) ==
    IF n_approved > target_count THEN "target_met"
    ELSE IF n_seen >= target_count * settings.max_multiplier THEN "max_total_fetch"
    ELSE IF n_seen > 50 /\ 100 * n_approved < settings.min_approval_rate_pct * n_seen
    THEN "low_approval_rate"
    ELSE "none"

\* checks the fetch limit before the target
StopReason_fetchfirst(n_approved, n_seen, target_count) ==
    IF n_seen >= target_count * settings.max_multiplier THEN "max_total_fetch"
    ELSE IF n_approved >= target_count THEN "target_met"
    ELSE IF n_seen > 50 /\ 100 * n_approved < settings.min_approval_rate_pct * n_seen
    THEN "low_approval_rate"
    ELSE "none"

\* The stop conditions checked at the end of an attempt, in their order.
\* min_approval_rate is held in percent: approved / seen < pct / 100.
StopReason(n_approved, n_seen, target_count) ==
    IF n_approved >= target_count THEN "target_met"
    ELSE IF n_seen >= target_count * settings.max_multiplier THEN "max_total_fetch"
    ELSE IF n_seen > 50 /\ 100 * n_approved < settings.min_approval_rate_pct * n_seen
    THEN "low_approval_rate"
    ELSE "none"

\* one attempt too many
LoopContinues_extra(attempt) == attempt <= settings.max_attempts

\* for attempt in range(1, self.max_attempts + 1): there is a next attempt
LoopContinues(attempt) == attempt < settings.max_attempts

\* returns the whole list
ReturnedApproved_all(tweets, n) == tweets

\* approved_tweets=approved_tweets[:target_count] of the target_met return
ReturnedApproved(tweets, n) == Truncate(tweets, n)

\* The end of the loop body without a return: the next attempt, or the
\* return after the loop
NextAttempt(r) ==
    IF LoopContinues(r.attempt)
    THEN /\ run' = [r EXCEPT !.attempt = @ + 1, !.pc = "fetch",
                             !.fresh_tweets = <<>>, !.decisions = <<>>]
         /\ result' = result
    ELSE /\ run' = [r EXCEPT !.pc = "done",
                             !.fresh_tweets = <<>>, !.decisions = <<>>]
         /\ result' = BackfillResult(r.approved_tweets, "max_attempts", r.seen_ids,
                                     settings.max_attempts, r.window_minutes)

\* n posts of the feed that are older than the age ceiling, with ids not
\* seen before (the feed's other posts have ids below FillerBase)
FillerBase == 10 * 10

Filler(n, seen_ids) ==
    LET used == Cardinality({i \in seen_ids : i >= FillerBase})
    IN  [k \in 1..n |-> [MkTweet(FillerBase + used + k - 1, "carol", PlainText,
                                 FALSE, FALSE) EXCEPT !.created_at = "old"]]

\* keeps the posts already seen
NewTweets_all(tweets, seen_ids) == tweets

\* new_tweets: the fetched posts whose id is not in seen_ids
NewTweets(tweets, seen_ids) ==
    SelectSeq(tweets, LAMBDA tw : tw.tweet_id \notin seen_ids)

\* The attempt after its fetch block: dedup, age filter, and the continue
\* when no post is left.  tweets is what the fetch block leaves in `tweets`.
AttemptHead(tweets) ==
    /\ LET new_tweets == NewTweets(tweets, run.seen_ids)
           seen       == run.seen_ids \cup
                           {new_tweets[i].tweet_id : i \in DOMAIN new_tweets}
           fresh      == filter_by_age(new_tweets)
           r          == [run EXCEPT !.seen_ids = seen, !.tweets = tweets]
       IN  IF fresh = <<>>
           THEN /\ attempt_logs' = Append(attempt_logs,
                      AttemptLog(run.attempt, 0, 0, Cardinality(seen),
                                 Len(run.approved_tweets), run.window_minutes))
                /\ NextAttempt(r)
           ELSE /\ run' = [r EXCEPT !.pc = "analyzing", !.fresh_tweets = fresh,
                                    !.decisions = <<>>]
                /\ UNCHANGED <<attempt_logs, result>>
    /\ UNCHANGED <<now, config, hourly_approvals, last_hour_reset, author_approvals,
                   metrics, pc, cur, decision, call, approval_log, settings>>

\* The head of an attempt: batch size, fetch, dedup, age filter (the fetch
\* block leaves the empty list when it raised)
BackfillFetch(tweets) ==
    /\ run.pc = "fetch"
    /\ AttemptHead(tweets)

\* an error decision that does not carry the post's id
ErrorDecision_noid(tweet, e) ==
    FilterDecision(NoTweet, "error", e, "skipped", None, <<>>, "rejected")

\* The decision analyze_tweets makes of a post whose analysis raised e
ErrorDecision(tweet, e) ==
    FilterDecision(tweet, "error", e, "skipped", None, <<>>, "rejected")

\* analyze_tweets: the next post of the batch goes to analyze_tweet, which
\* returns its decision, raises, or is suspended in the classifier call
BackfillAnalyze ==
    /\ run.pc = "analyzing"
    /\ Len(run.decisions) < Len(run.fresh_tweets)
    /\ LET tweet == run.fresh_tweets[Len(run.decisions) + 1]
       IN  /\ AnalyzeStart(1, tweet)
           /\ run' = IF pc'[1] # "idle" THEN run
                     ELSE IF call'.raised # ""
                     THEN [run EXCEPT !.decisions =
                                         Append(@, ErrorDecision(tweet, call'.raised))]
                     ELSE [run EXCEPT !.decisions = Append(@, decision')]
    /\ UNCHANGED <<settings, attempt_logs, result>>

\* analyze_tweets: the classifier answers and analyze_tweet returns
BackfillAnswer(resp) ==
    /\ run.pc = "analyzing"
    /\ AnalyzeFinish(1, resp)
    /\ run' = [run EXCEPT !.decisions = Append(@, decision')]
    /\ UNCHANGED <<settings, attempt_logs, result>>

\* The rest of the attempt, once analyze_tweets has returned
BackfillAttemptEnd ==
    /\ run.pc = "analyzing"
    /\ pc[1] = "idle"
    /\ Len(run.decisions) = Len(run.fresh_tweets)
    /\ LET approved_ids == {run.decisions[i].tweet_id :
                              i \in {j \in DOMAIN run.decisions :
                                       run.decisions[j].final = "approved"}}
           attempt_approved == SelectSeq(run.fresh_tweets,
                                         LAMBDA tw : tw.tweet_id \in approved_ids)
       IN  \E capped \in {enforce_existing_caps(RL, attempt_approved, now)} :
           LET approved == run.approved_tweets \o capped.capped_tweets
               stop     == StopReason(Len(approved), Cardinality(run.seen_ids),
                                      run.target_count)
               r        == [run EXCEPT !.approved_tweets = approved]
           IN
           /\ SetRL(capped.rl)
           /\ attempt_logs' = Append(attempt_logs,
                 AttemptLog(run.attempt, Len(run.fresh_tweets),
                            Len(capped.capped_tweets), Cardinality(run.seen_ids),
                            Len(approved), run.window_minutes))
           /\ IF stop = "none"
              THEN NextAttempt([r EXCEPT !.window_minutes =
                                   Min(settings.max_window_min, @ * 2)])
              ELSE /\ run' = [r EXCEPT !.pc = "done",
                                       !.fresh_tweets = <<>>, !.decisions = <<>>]
                   /\ result' = BackfillResult(
                          IF stop = "target_met"
                          THEN ReturnedApproved(approved, run.target_count)
                          ELSE approved,
                          stop, run.seen_ids, run.attempt, run.window_minutes)
    /\ UNCHANGED <<now, config, metrics, pc, cur, decision, call, approval_log,
                   settings>>

-----------------------------------------------------------------------------
(* SpecBackfill: one find_relevant_tweets run over a feed of recent posts   *)
(* of two authors, a post the quick filter rejects, a post without an       *)
(* author, and posts older than the age ceiling.                            *)

Post(id, author, text, created_at) ==
    [MkTweet(id, author, text, FALSE, FALSE) EXCEPT !.created_at = created_at]

Alice1 == Post(1, "alice", TechText, "recent")
Alice2 == Post(2, "alice", TechText, "recent")
Bob3   == Post(3, "bob", TechText, "recent")
Sunset4 == Post(4, "alice", SunsetText, "recent")
Old5   == Post(5, "bob", TechText, "old")
Mal6   == Post(6, NoAuthor, TechText, "recent")

\* What a fetch returns before the older posts that fill the batch
FeedBatches ==
    { <<>>, <<Alice1>>, <<Bob3>>, <<Sunset4>>, <<Alice1, Alice2>>,
      <<Alice1, Bob3>>, <<Alice1, Alice1>>, <<Old5, Bob3>>, <<Mal6, Bob3>> }

InitBackfill ==
    /\ InitAnalyzer({80}, 3, 2)
    /\ settings = [max_attempts |-> 2, max_multiplier |-> 30,
                   start_window_min |-> 30, max_window_min |-> 45,
                   min_approval_rate_pct |-> 1, batch_base |-> 26]
    /\ \E target_count \in {1, 2} :
          run = [NoRun EXCEPT !.pc = "fetch", !.target_count = target_count,
                              !.attempt = 1,
                              !.window_minutes = settings.start_window_min]
    /\ attempt_logs = << >>
    /\ result = NoResult

Fetch ==
    /\ run.pc = "fetch"
    /\ \E head \in FeedBatches : \E fill \in BOOLEAN :
        LET size == calculate_batch_size(run.target_count, Len(run.approved_tweets),
                                         Cardinality(run.seen_ids), run.attempt)
        IN  BackfillFetch(IF fill
                          THEN head \o Filler(size - Len(head), run.seen_ids)
                          ELSE head)

Classify == \E resp \in RateResponses : BackfillAnswer(resp)

BackfillTick == run.pc # "done" /\ Advance(2 * HourSecs, MaxBackfillSteps)

BackfillStep == Fetch \/ BackfillAnalyze \/ Classify \/ BackfillAttemptEnd

NextBackfill == BackfillStep \/ BackfillTick

SpecBackfill == InitBackfill /\ [][NextBackfill]_vars

-----------------------------------------------------------------------------
(* SpecScenarioE: a run with target_count 5 and a per-author cap of 2 over  *)
(* a feed of posts that pass the quick filter and that the classifier       *)
(* approves.  A fetch returns posts of one author only, or posts of five    *)
(* authors; the ids are new in every attempt.                               *)

ScenarioAuthors == <<"alice", "bob", "carol", "dave", "erin">>

\* The i-th post of author j fetched in an attempt
ScenarioPost(j, attempt, i) ==
    Post(100 * j + 20 * (attempt - 1) + i, ScenarioAuthors[j], TechText, "recent")

\* size posts of the first author
OneAuthorBatch(attempt, size) == [i \in 1..size |-> ScenarioPost(1, attempt, i)]

\* per posts of each author, author by author
ManyAuthorsBatch(attempt, per) ==
    [k \in 1..(per * Len(ScenarioAuthors)) |->
        ScenarioPost(((k - 1) \div per) + 1, attempt, ((k - 1) % per) + 1)]

\* The classifier's answer to every post of the scenario
Approves == Object(TRUE, 95, "true", TRUE, 20)

InitScenarioE ==
    /\ InitAnalyzer({80}, 20, 2)
    /\ \E multiplier \in {2, 8} :
          settings = [max_attempts |-> 2, max_multiplier |-> multiplier,
                      start_window_min |-> 30, max_window_min |-> 2880,
                      min_approval_rate_pct |-> 1, batch_base |-> 10]
    /\ run = [NoRun EXCEPT !.pc = "fetch", !.target_count = 5, !.attempt = 1,
                           !.window_minutes = settings.start_window_min]
    /\ attempt_logs = << >>
    /\ result = NoResult

ScenarioFetch ==
    /\ run.pc = "fetch"
    /\ LET size == calculate_batch_size(run.target_count, Len(run.approved_tweets),
                                        Cardinality(run.seen_ids), run.attempt)
       IN  \E tweets \in {OneAuthorBatch(run.attempt, size),
                          ManyAuthorsBatch(run.attempt, 1),
                          ManyAuthorsBatch(run.attempt, 2)} : BackfillFetch(tweets)

ScenarioClassify == BackfillAnswer(Approves)

NextScenarioE ==
    ScenarioFetch \/ BackfillAnalyze \/ ScenarioClassify \/ BackfillAttemptEnd

SpecScenarioE == InitScenarioE /\ [][NextScenarioE]_vars

-----------------------------------------------------------------------------
(* SpecProvider: the fetch block of an attempt.  The call of the feed       *)
(* client raises or returns a list, which may be empty; in list mode an     *)
(* empty list is replaced by _generate_mock_list_tweets(list_id,            *)
(* batch_size).                                                             *)

\* sample_texts[0..3] of _generate_mock_list_tweets
MockTexts ==
    << Text(107, 16, 2, 107, FALSE, TRUE,  FALSE, FALSE),
       Text(106, 14, 1, 106, FALSE, TRUE,  FALSE, FALSE),
       Text(102, 15, 0, 102, FALSE, FALSE, FALSE, FALSE),
       Text(107, 16, 1, 107, FALSE, FALSE, FALSE, FALSE) >>

MockUsers == <<"mock_user_1", "mock_user_2", "mock_user_3", "mock_user_4">>

\* ids of mock posts; they hold the time of generation, so the posts of
\* another attempt have other ids
MockBase == 2 * FillerBase

\* _generate_mock_list_tweets(list_id, count), for count <= 4; created_at is
\* datetime.now().isoformat(), which no format of _filter_by_age parses
generate_mock_list_tweets(attempt, count) ==
    [i \in 1..count |-> Post(MockBase + 10 * (attempt - 1) + i, MockUsers[i],
                             MockTexts[i], "recent")]

\* What the awaited call of the feed client does
ProviderOutcomes ==
    { [raises |-> TRUE, tweets |-> <<>>] }
      \cup { [raises |-> FALSE, tweets |-> b] :
                b \in {<<>>, <<Alice1>>, <<Sunset4>>, <<Old5>>, <<Alice1, Bob3>>} }

InitProvider ==
    /\ InitAnalyzer({80}, 3, 2)
    /\ settings = [max_attempts |-> 2, max_multiplier |-> 8,
                   start_window_min |-> 30, max_window_min |-> 2880,
                   min_approval_rate_pct |-> 1, batch_base |-> 2]
    /\ \E source_type \in {"list", "search"} :
          run = [NoRun EXCEPT !.pc = "fetch", !.source_type = source_type,
                              !.target_count = 1, !.attempt = 1,
                              !.window_minutes = settings.start_window_min]
    /\ attempt_logs = << >>
    /\ result = NoResult

\* await scrape_twitter_list(...) or await search_tweets(...) completes
ProviderCall ==
    /\ run.pc = "fetch"
    /\ \E outcome \in ProviderOutcomes :
          run' = [run EXCEPT !.pc = IF outcome.raises THEN "fetch_raised" ELSE "fetched",
                             !.tweets = outcome.tweets]
    /\ UNCHANGED <<now, config, hourly_approvals, last_hour_reset, author_approvals,
                   metrics, pc, cur, decision, call, approval_log, settings,
                   attempt_logs, result>>

\* The rest of the fetch block and the head of the attempt
ProviderFetched ==
    /\ run.pc \in {"fetch_raised", "fetched"}
    /\ LET size == calculate_batch_size(run.target_count, Len(run.approved_tweets),
                                        Cardinality(run.seen_ids), run.attempt)
       IN  AttemptHead(IF run.pc = "fetch_raised" THEN <<>>
                       ELSE IF run.source_type = "list" /\ run.tweets = <<>>
                       THEN generate_mock_list_tweets(run.attempt, size)
                       ELSE run.tweets)

NextProvider ==
    ProviderCall \/ ProviderFetched \/ BackfillAnalyze \/ Classify \/ BackfillAttemptEnd

SpecProvider == InitProvider /\ [][NextProvider]_vars

-----------------------------------------------------------------------------
(* SpecBatch: _calculate_batch_size at the head of an attempt, for every    *)
(* target, batch base, number of approved posts and number of posts seen    *)
(* of a grid.  At attempt 1 nothing is approved or seen; later fewer posts  *)
(* are approved than the target asks for, or the run would have returned.   *)

BatchTargets == {1, 2, 5}

BatchBases == {2, 10}

BatchSeen == {0, 1, 2, 3, 5, 8, 12}

\* The analyzer and the run at the head of attempt `attempt`, after n posts
\* were seen and analysed at time 0 and a of them approved, each of another
\* author
BatchState(target_count, attempt, a, n) ==
    LET approved == [i \in 1..a |-> Post(i, ScenarioAuthors[i], TechText, "recent")]
    IN  /\ hourly_approvals = a
        /\ author_approvals = [au \in {ScenarioAuthors[i] : i \in 1..a} |-> <<0>>]
        /\ approval_log = [i \in 1..a |->
                              [author |-> ScenarioAuthors[i], time |-> 0, window |-> 0]]
        /\ metrics = [InitMetrics EXCEPT !.total_processed = n, !.approvals = a,
                                         !.ai_rejects = n - a]
        /\ run = [NoRun EXCEPT !.pc = "fetch", !.target_count = target_count,
                               !.attempt = attempt, !.seen_ids = 1..n,
                               !.approved_tweets = approved,
                               !.window_minutes = settings.start_window_min]

InitBatch ==
    /\ now = 0
    /\ relevance_threshold = 80
    /\ max_approvals_per_hour = 20
    /\ max_per_author_6h = 4
    /\ last_hour_reset = 0
    /\ pc = [p \in Procs |-> "idle"]
    /\ cur = [p \in Procs |-> NoTweet]
    /\ decision = NoDecision
    /\ call = NoCall
    /\ \E batch_base \in BatchBases :
          settings = [max_attempts |-> 5, max_multiplier |-> 8,
                      start_window_min |-> 30, max_window_min |-> 2880,
                      min_approval_rate_pct |-> 1, batch_base |-> batch_base]
    /\ \E target_count \in BatchTargets :
          \/ BatchState(target_count, 1, 0, 0)
          \/ \E a \in 0..(target_count - 1) : \E n \in BatchSeen :
                n >= a /\ BatchState(target_count, 2, a, n)
    /\ attempt_logs = << >>
    /\ result = NoResult

\* batch_size = self._calculate_batch_size(target_count, len(approved_tweets),
\* len(seen_ids), attempt)
EstimateBatch ==
    /\ run.pc = "fetch"
    /\ run' = [run EXCEPT !.pc = "sized",
                          !.batch_size = calculate_batch_size(run.target_count,
                              Len(run.approved_tweets), Cardinality(run.seen_ids),
                              run.attempt)]
    /\ UNCHANGED <<now, config, hourly_approvals, last_hour_reset, author_approvals,
                   metrics, pc, cur, decision, call, approval_log, settings,
                   attempt_logs, result>>

NextBatch == EstimateBatch

SpecBatch == InitBatch /\ [][NextBatch]_vars

-----------------------------------------------------------------------------
(* SpecHybrid: the fetch block of an attempt in hybrid mode.  The list feed *)
(* is asked for list_portion posts and, when there is a query and a         *)
(* remainder, search is asked for search_portion posts.                     *)

\* ids of posts the run saw before the attempt the specification starts at
SeenBase == 3 * FillerBase

\* ids of posts that search returns
SearchBase == 50

Carol51 == Post(SearchBase + 1, "carol", TechText, "recent")
Sunset52 == Post(SearchBase + 2, "bob", SunsetText, "recent")

\* What the list feed and search return when they do not raise
ListResults == { <<>>, <<Alice1>>, <<Alice1, Bob3>> }

SearchResults == { <<>>, <<Carol51>>, <<Sunset52, Carol51>> }

\* list_portion = max(1, batch_size // 2)
ListPortion(batch_size) == Max(1, batch_size \div 2)

\* The analyzer and the run at the head of attempt `attempt` of a hybrid run,
\* after n posts were seen and a of them approved at time 0
HybridState(target_count, attempt, a, n, search_query) ==
    LET approved == [i \in 1..a |->
                        Post(SeenBase + i, ScenarioAuthors[i], TechText, "recent")]
    IN  /\ hourly_approvals = a
        /\ author_approvals = [au \in {ScenarioAuthors[i] : i \in 1..a} |-> <<0>>]
        /\ approval_log = [i \in 1..a |->
                              [author |-> ScenarioAuthors[i], time |-> 0, window |-> 0]]
        /\ metrics = [InitMetrics EXCEPT !.total_processed = n, !.approvals = a,
                                         !.ai_rejects = n - a]
        /\ run = [NoRun EXCEPT !.pc = "fetch", !.source_type = "hybrid",
                               !.search_query = search_query,
                               !.target_count = target_count, !.attempt = attempt,
                               !.seen_ids = (SeenBase + 1)..(SeenBase + n),
                               !.approved_tweets = approved,
                               !.window_minutes = settings.start_window_min]

InitHybrid ==
    /\ now = 0
    /\ relevance_threshold = 80
    /\ max_approvals_per_hour = 20
    /\ max_per_author_6h = 4
    /\ last_hour_reset = 0
    /\ pc = [p \in Procs |-> "idle"]
    /\ cur = [p \in Procs |-> NoTweet]
    /\ decision = NoDecision
    /\ call = NoCall
    /\ \E batch_base \in {2, 3} :
          settings = [max_attempts |-> 2, max_multiplier |-> 8,
                      start_window_min |-> 30, max_window_min |-> 2880,
                      min_approval_rate_pct |-> 1, batch_base |-> batch_base]
    /\ \E search_query \in {"", "ai agents"} :
          \/ \E target_count \in {1, 2} : HybridState(target_count, 1, 0, 0, search_query)
          \/ HybridState(2, 2, 1, 5, search_query)
    /\ attempt_logs = << >>
    /\ result = NoResult

\* The batch size and the two portions, and the awaited call of the list
\* feed; an empty list is replaced by mock posts
HybridListCall ==
    /\ run.pc = "fetch"
    /\ run.source_type = "hybrid"
    /\ LET batch_size == calculate_batch_size(run.target_count, Len(run.approved_tweets),
                                              Cardinality(run.seen_ids), run.attempt)
           list_portion == ListPortion(batch_size)
           r == [run EXCEPT !.batch_size = batch_size, !.list_portion = list_portion,
                            !.search_portion = batch_size - list_portion]
       IN  \/ run' = [r EXCEPT !.pc = "fetch_raised", !.tweets = <<>>]
           \/ \E list_tweets \in ListResults :
                 run' = [r EXCEPT !.pc = "list_fetched",
                                  !.tweets = IF list_tweets = <<>>
                                             THEN generate_mock_list_tweets(run.attempt,
                                                                            list_portion)
                                             ELSE list_tweets]
    /\ UNCHANGED <<now, config, hourly_approvals, last_hour_reset, author_approvals,
                   metrics, pc, cur, decision, call, approval_log, settings,
                   attempt_logs, result>>

\* The search call, made when there is a query and a remainder, and the head
\* of the attempt on list_tweets + search_tweets
HybridSearchCall ==
    /\ run.pc = "list_fetched"
    /\ IF run.search_query # "" /\ run.search_portion > 0
       THEN \/ AttemptHead(<<>>)
            \/ \E search_tweets \in SearchResults : AttemptHead(run.tweets \o search_tweets)
       ELSE AttemptHead(run.tweets)

NextHybrid ==
    \/ HybridListCall
    \/ HybridSearchCall
    \/ ProviderFetched
    \/ BackfillAnalyze
    \/ Classify
    \/ BackfillAttemptEnd

SpecHybrid == InitHybrid /\ [][NextHybrid]_vars

-----------------------------------------------------------------------------
(* SpecCeiling: one find_relevant_tweets run in search mode over a feed     *)
(* whose posts carry timestamps of every kind, with a ceiling of 45         *)
(* minutes and a window that starts at 30.                                  *)

West7 == Post(7, "bob", TechText, "old_west")
NoFormat8 == Post(8, "alice", TechText, "old_noformat")

CeilingBatches ==
    { <<>>, <<Alice1>>, <<Old5>>, <<West7>>, <<NoFormat8>>, <<Old5, Alice1>>,
      <<West7, Old5>> }

InitCeiling ==
    /\ InitAnalyzer({80}, 3, 2)
    /\ settings = [max_attempts |-> 2, max_multiplier |-> 8,
                   start_window_min |-> 30, max_window_min |-> 45,
                   min_approval_rate_pct |-> 1, batch_base |-> 2]
    /\ \E target_count \in {1, 2} :
          run = [NoRun EXCEPT !.pc = "fetch", !.source_type = "search",
                              !.search_query = "ai agents",
                              !.target_count = target_count, !.attempt = 1,
                              !.window_minutes = settings.start_window_min]
    /\ attempt_logs = << >>
    /\ result = NoResult

CeilingFetch == \E tweets \in CeilingBatches : BackfillFetch(tweets)

NextCeiling == CeilingFetch \/ BackfillAnalyze \/ Classify \/ BackfillAttemptEnd

SpecCeiling == InitCeiling /\ [][NextCeiling]_vars

-----------------------------------------------------------------------------
(* SpecTelemetry: the module's orchestrator instance serves one             *)
(* find_relevant_tweets call after another.                                 *)

TelemetryBatches == { <<>>, <<Alice1>>, <<Bob3>>, <<Sunset4>>, <<Alice1, Bob3>> }

\* The locals of find_relevant_tweets at the head of its first attempt
StartRun(target_count) ==
    [NoRun EXCEPT !.pc = "fetch", !.source_type = "search",
                  !.search_query = "ai agents", !.target_count = target_count,
                  !.attempt = 1, !.window_minutes = settings.start_window_min]

InitTelemetry ==
    /\ InitAnalyzer({80}, 3, 2)
    /\ settings = [max_attempts |-> 2, max_multiplier |-> 8,
                   start_window_min |-> 30, max_window_min |-> 2880,
                   min_approval_rate_pct |-> 1, batch_base |-> 2]
    /\ run = StartRun(1)
    /\ attempt_logs = << >>
    /\ result = NoResult

TelemetryFetch == \E tweets \in TelemetryBatches : BackfillFetch(tweets)

\* The earlier calls that have returned, counted by their last attempts
RunsReturned == Cardinality({i \in DOMAIN attempt_logs :
                    i = Len(attempt_logs) \/ attempt_logs[i + 1].attempt = 1})

\* The next call of find_relevant_tweets on the same orchestrator
NewRun ==
    /\ run.pc = "done"
    /\ RunsReturned < MaxRuns
    /\ run' = StartRun(run.target_count)
    /\ result' = NoResult
    /\ UNCHANGED <<now, config, hourly_approvals, last_hour_reset, author_approvals,
                   metrics, pc, cur, decision, call, approval_log, settings,
                   attempt_logs>>

NextTelemetry ==
    TelemetryFetch \/ BackfillAnalyze \/ Classify \/ BackfillAttemptEnd \/ NewRun

SpecTelemetry == InitTelemetry /\ [][NextTelemetry]_vars

-----------------------------------------------------------------------------
(* SpecCase: sequential analyze_tweet calls on posts of authors whose       *)
(* handles are written in several letter cases.                             *)

CaseHandles == {"Alice", "alice", "ALICE", "bob", "Bob"}

CaseTweets == {MkTweet(1, h, TechText, FALSE, FALSE) : h \in CaseHandles}

InitCase == InitAnalyzer({80}, 3, 2) /\ NoBackfill

CaseCall ==
    /\ metrics.total_processed < MaxCaseCalls
    /\ \E tweet \in CaseTweets : AnalyzeStart(1, tweet)
    /\ UNCHANGED backfill

CaseAnswer ==
    /\ \E resp \in RateResponses : AnalyzeFinish(1, resp)
    /\ UNCHANGED backfill

CaseTick == Advance(HourSecs, MaxCaseHours)

NextCase == CaseCall \/ CaseAnswer \/ CaseTick

SpecCase == InitCase /\ [][NextCase]_vars

-----------------------------------------------------------------------------
(* Properties *)

\* An invocation has completed and decision is its FilterDecision
Returned == call.proc # 0

\* The latest invocation got an answer of the text-generation call
ReachedAi == Returned /\ call.resp # NoResponse

\* The answer is an object that meets the schema: relevance a number in
\* [0, 100], approved a boolean, categories a list of strings, reason of at
\* most 80 characters
MeetsSchema(resp) ==
    /\ resp.kind = "object"
    /\ resp.relevance_numeric /\ resp.relevance \in 0..100
    /\ resp.approved # "invalid"
    /\ resp.categories_ok
    /\ resp.reason_len \in 0..80

\* C1: the decision of an invocation is 'approved' only if the quick filter
\* passed, the rate-limit check did not block, and the classifier's answer
\* validated with approved = true and relevance >= the threshold; in every
\* other case it is 'rejected'.
C1_ApprovedOnlyIf ==
    Returned =>
      LET ok == /\ ~quick_filter(call.tweet)[1]
                /\ ~call.rate_blocked
                /\ call.resp # NoResponse
                /\ MeetsSchema(call.resp)
                /\ call.resp.approved = "true"
                /\ call.resp.relevance >= relevance_threshold
      IN  /\ decision.final = "approved" => ok
          /\ ~ok => decision.final = "rejected"

C1_Witness ==
    /\ Returned /\ decision.final = "approved"
    /\ call.resp.relevance = relevance_threshold

\* The approvals of author a committed in the trailing span (t - len, t]
ApprovalsOf(a, t, len) ==
    Cardinality({i \in DOMAIN approval_log :
                   /\ approval_log[i].author = a
                   /\ approval_log[i].time > t - len
                   /\ approval_log[i].time <= t})

\* The approvals committed in the trailing span (t - len, t]
ApprovalsIn(t, len) ==
    Cardinality({i \in DOMAIN approval_log :
                   /\ approval_log[i].time > t - len
                   /\ approval_log[i].time <= t})

\* The ends of the trailing windows that can hold the most approvals: each
\* commit time, and the present
WindowEnds == {approval_log[i].time : i \in DOMAIN approval_log} \cup {now}

\* C2: in sequential operation, for every author the approvals committed in
\* any trailing six-hour window never exceed max_per_author_6h.
C2_PerAuthorCap ==
    \A a \in Authors : \A t \in WindowEnds :
        ApprovalsOf(a, t, SixHoursSecs) <= max_per_author_6h

\* An author holds the cap's worth of approvals in the trailing six hours
\* and has more than the cap over the whole run: older ones were pruned
C2_Witness ==
    \E a \in Authors :
        /\ ApprovalsOf(a, now, SixHoursSecs) = max_per_author_6h
        /\ ApprovalsOf(a, now, now + 1) > max_per_author_6h

\* C3: when invocations interleave at the await of the classifier call, no
\* author gets more approvals than the per-author cap in a six-hour window
\* and the hourly counter does not pass the hourly cap.
C3_ConcurrentCaps ==
    /\ \A a \in Authors : \A t \in WindowEnds :
          ApprovalsOf(a, t, SixHoursSecs) <= max_per_author_6h
    /\ hourly_approvals <= max_approvals_per_hour

\* A step in which coroutine 1 gets the classifier's answer and returns
Finishes == pc[1] = "ai_call" /\ pc'[1] = "idle"

\* C4: if the text-generation call raises, times out or returns content that
\* is not valid JSON or fails validation, the decision is 'rejected' and
\* nothing is committed to the rate-limit state.
C4_FailClosed ==
    [][ (Finishes /\ ~MeetsSchema(call'.resp)) =>
          /\ decision'.final = "rejected"
          /\ UNCHANGED <<hourly_approvals, last_hour_reset, author_approvals,
                         approval_log>>
          /\ metrics'.approvals = metrics.approvals ]_vars

C4_Witness ==
    /\ ReachedAi /\ call.resp.kind = "asyncio_timeout"
    /\ decision.final = "rejected" /\ decision.ai_reason = <<"timeout">>

\* C5: a validated answer with approved = true is rejected with a reason
\* that starts with below_threshold when its relevance is below the
\* threshold, and approved with ai_score = relevance otherwise.
C5_ThresholdOverride ==
    (ReachedAi /\ MeetsSchema(call.resp) /\ call.resp.approved = "true") =>
      IF call.resp.relevance < relevance_threshold
      THEN /\ decision.final = "rejected"
           /\ Head(decision.ai_reason) = "below_threshold"
      ELSE /\ decision.final = "approved"
           /\ decision.ai_score = <<call.resp.relevance>>

\* Relevance 95 is rejected at threshold 96
C5_Witness ==
    /\ ReachedAi /\ MeetsSchema(call.resp) /\ call.resp.approved = "true"
    /\ call.resp.relevance = 95 /\ relevance_threshold = 96
    /\ decision.final = "rejected"
    /\ decision.ai_reason = <<"below_threshold", 95, 96>>

\* A step that starts an invocation (coroutine 1 calls analyze_tweet)
Starts == metrics'.total_processed = metrics.total_processed + 1

\* C8: in sequential operation the hourly counter never exceeds
\* max_approvals_per_hour; a post that passed the quick filter and is checked
\* while the counter is at the cap is blocked with reason hourly_limit and
\* not approved; the counter goes back to zero, and the window restarts,
\* only when more than one hour has passed since the window start.
C8_HourlyCap ==
    /\ [](hourly_approvals <= max_approvals_per_hour)
    /\ [][ /\ ( /\ Starts
                /\ metrics'.quick_rejects = metrics.quick_rejects
                /\ hourly_approvals' >= max_approvals_per_hour )
             => /\ call'.rate_blocked
                /\ decision'.ai_reason = <<"hourly_limit">>
                /\ decision'.final = "rejected"
                /\ decision'.stage_ai = "reject"
                /\ metrics'.hourly_blocks = metrics.hourly_blocks + 1
                /\ UNCHANGED <<pc, approval_log>>
           /\ (hourly_approvals' < hourly_approvals
                 \/ last_hour_reset' # last_hour_reset)
             => /\ now - last_hour_reset > HourSecs
                /\ last_hour_reset' = now
                /\ hourly_approvals' = 0 ]_vars

\* A post was blocked at the hourly cap, in a window that is not the first
C8_Witness ==
    /\ Returned /\ call.rate_blocked
    /\ decision.ai_reason = <<"hourly_limit">>
    /\ hourly_approvals = max_approvals_per_hour
    /\ last_hour_reset > 0

ApprovalsOfWindow(w) ==
    Cardinality({i \in DOMAIN approval_log : approval_log[i].window = w})

Stamps(f, a) == IF a \in DOMAIN f THEN f[a] ELSE <<>>

\* C10: an invocation that returns 'approved' adds exactly 1 to the hourly
\* counter and appends exactly one timestamp to the author's list; the
\* counter grows and a list gets a timestamp in no other step, so a
\* 'rejected' invocation adds neither.
C10_CommitOnce ==
    [][ LET grown == {a \in Authors :
                        Len(Stamps(author_approvals', a)) >
                        Len(Stamps(author_approvals, a))}
            approved == Finishes /\ decision'.final = "approved"
        IN  /\ approved =>
                /\ hourly_approvals' = hourly_approvals + 1
                /\ grown = {cur[1].author}
                /\ Stamps(author_approvals', cur[1].author) =
                     Append(Stamps(author_approvals, cur[1].author), now)
                /\ approval_log' # approval_log
            /\ (hourly_approvals' > hourly_approvals \/ grown # {}
                  \/ approval_log' # approval_log) => approved ]_vars

C10_Witness ==
    /\ Returned /\ decision.final = "approved"
    /\ hourly_approvals = 1
    /\ Stamps(author_approvals, call.tweet.author) = <<now>>

\* The run of find_relevant_tweets has returned
Done == run.pc = "done"

\* C6: whatever the batches, the decisions and the stop reason, the result
\* holds at most target_count approved posts.
C6_TargetCap ==
    Done => Len(result.approved_tweets) <= run.target_count

\* More posts than the target were approved and the result was cut
C6_Witness ==
    /\ Done /\ result.stop_reason = "target_met"
    /\ Len(run.approved_tweets) > run.target_count
    /\ Len(result.approved_tweets) = run.target_count

StopReasons == {"target_met", "max_total_fetch", "low_approval_rate", "max_attempts"}

\* The steps of the run that are left at most: the attempts after this one,
\* each of AttemptSpan steps at most, and what is left of this attempt
AttemptSpan == 2 * Max(settings.batch_base, 4 * run.target_count) + 3

Rank ==
    IF Done THEN 0
    ELSE (settings.max_attempts - run.attempt) * AttemptSpan
         + ( IF run.pc = "fetch" THEN AttemptSpan
             ELSE 2 * (Len(run.fresh_tweets) - Len(run.decisions))
                  + (IF pc[1] = "idle" THEN 2 ELSE 1) )

\* C7: a run makes at most max_attempts attempts and, every fetch and
\* classification returning, ends: a run that has not returned can take a
\* step, each step brings the return nearer, and the stop reason returned is
\* one of the four.
C7_Terminates ==
    /\ [](/\ run.attempt \in 1..settings.max_attempts
          /\ Len(attempt_logs) <= settings.max_attempts
          /\ Rank >= 0
          /\ ~Done => ENABLED BackfillStep
          /\ Done => /\ result.stop_reason \in StopReasons
                     /\ result.attempts_made \in 1..settings.max_attempts)
    /\ [][BackfillStep => Rank' < Rank]_vars

\* A run that used every attempt
C7_Witness ==
    /\ Done /\ result.stop_reason = "max_attempts"
    /\ result.attempts_made = settings.max_attempts
    /\ Len(attempt_logs) = settings.max_attempts

\* The post of the invocation that a step of coroutine 1 starts
StartedTweet == IF pc'[1] = "ai_call" THEN cur'[1] ELSE call'.tweet

\* C11: an invocation on a post that the quick filter rejects returns a
\* decision with stage_quick = 'reject', stage_ai = 'skipped', ai_score =
\* None and final = 'rejected', without calling the text-generation service
\* and without touching the hourly counter, the window start or the author
\* lists.
C11_QuickRejectShortCircuits ==
    [][ (Starts /\ quick_filter(StartedTweet)[1]) =>
          /\ pc'[1] = "idle"
          /\ call'.quick_rejected /\ call'.resp = NoResponse
          /\ decision'.tweet_id = StartedTweet.tweet_id
          /\ decision'.stage_quick = "reject"
          /\ decision'.quick_reason = quick_filter(StartedTweet)[2]
          /\ decision'.stage_ai = "skipped"
          /\ decision'.ai_score = None
          /\ decision'.final = "rejected"
          /\ UNCHANGED <<hourly_approvals, last_hour_reset, author_approvals,
                         approval_log>> ]_vars

\* A quick reject at a time when a rate-limit check would have reset the
\* hourly counter, which still holds the earlier approval
C11_Witness ==
    /\ Returned /\ call.quick_rejected
    /\ decision.stage_ai = "skipped" /\ decision.final = "rejected"
    /\ hourly_approvals = 1
    /\ HourElapsed(now, last_hour_reset)

\* C12: an invocation on a post that passes the quick filter and that the
\* rate-limit check blocks returns at once, without calling the
\* text-generation service: final = 'rejected', the reason is the block
\* reason (hourly_limit or per_author_limit), and no approval is committed.
C12_RateBlockShortCircuits ==
    [][ LET chk == check_rate_limits(RL, StartedTweet, now)
        IN  (Starts /\ ~quick_filter(StartedTweet)[1] /\ chk.blocked) =>
              /\ pc'[1] = "idle"
              /\ call'.rate_blocked /\ call'.resp = NoResponse
              /\ decision'.tweet_id = StartedTweet.tweet_id
              /\ decision'.stage_quick = "pass"
              /\ decision'.stage_ai = "reject"
              /\ decision'.final = "rejected"
              /\ decision'.ai_reason = <<chk.reason>>
              /\ chk.reason \in {"hourly_limit", "per_author_limit"}
              /\ approval_log' = approval_log
              /\ metrics'.approvals = metrics.approvals
              /\ hourly_approvals' <= hourly_approvals
              /\ \A a \in Authors :
                    Len(Stamps(author_approvals', a)) <=
                    Len(Stamps(author_approvals, a)) ]_vars

\* A post blocked by the per-author cap after the hourly window restarted
C12_Witness ==
    /\ Returned /\ call.rate_blocked
    /\ decision.ai_reason = <<"per_author_limit">>
    /\ decision.final = "rejected"
    /\ metrics.approvals = 1 /\ hourly_approvals = 0

\* The invocations counted by the counters of the terminal stages
TerminalCount ==
    metrics.quick_rejects + metrics.hourly_blocks + metrics.per_author_blocks
      + metrics.ai_rejects + metrics.approvals

\* C13: whenever no invocation is in flight, total_processed equals
\* quick_rejects + hourly_blocks + per_author_blocks + ai_rejects +
\* approvals, invocations that ended in an error decision included.
C13_TelemetryBalanced ==
    (\A p \in Procs : pc[p] = "idle") => metrics.total_processed = TerminalCount

\* The content is not JSON, or is JSON that is not an object of the
\* expected shape
ParseFailure(resp) ==
    \/ resp.kind \in {"bad_json", "non_object"}
    \/ resp.kind = "object" /\ ~MeetsSchema(resp)

\* C14: when the classifier's content fails to parse or to validate, the
\* invocation returns a rejection whose reason starts with parse_error,
\* parse_errors grows by one, and no exception leaves analyze_tweet.
C14_ParseErrorPrefix ==
    [][ (Finishes /\ ParseFailure(call'.resp)) =>
          /\ call'.raised = ""
          /\ decision'.final = "rejected"
          /\ Head(decision'.ai_reason) = "parse_error"
          /\ metrics'.parse_errors = metrics.parse_errors + 1 ]_vars

\* C15: an invocation whose classification call gets no answer still
\* returns, with a rejected decision of reason timeout, and it is timeouts,
\* not parse_errors, that grows by one.
C15_TimeoutReturns ==
    /\ [][ (Finishes /\ call'.resp.kind = "client_timeout") =>
              /\ decision'.final = "rejected"
              /\ decision'.ai_reason = <<"timeout">>
              /\ metrics'.timeouts = metrics.timeouts + 1
              /\ metrics'.parse_errors = metrics.parse_errors ]_vars
    /\ (pc[1] = "hung") ~> (pc[1] = "idle")

\* The decisions made so far are those of the first posts of the batch, one
\* each, in order
DecisionsAligned ==
    /\ Len(run.decisions) <= Len(run.fresh_tweets)
    /\ \A i \in DOMAIN run.decisions :
          /\ run.decisions[i].tweet_id = run.fresh_tweets[i].tweet_id
          /\ run.decisions[i].final \in {"approved", "rejected"}
          /\ run.decisions[i].stage_quick = "error" =>
                /\ run.decisions[i].final = "rejected"
                /\ run.decisions[i].stage_ai = "skipped"
          /\ (run.fresh_tweets[i].author = NoAuthor
                /\ run.decisions[i].ai_reason # <<"hourly_limit">>) =>
                run.decisions[i].stage_quick = "error"

\* C16: analyze_tweets makes one decision per post of its input, in input
\* order and with the post's id, a post whose analysis raises getting a
\* decision with stage_quick = 'error' and final = 'rejected'; and the
\* attempt goes on to its stop conditions only when every post of the batch
\* has its decision.
C16_OneDecisionPerPost ==
    /\ [](run.pc = "analyzing" => DecisionsAligned)
    /\ [][ (run.pc = "analyzing" /\ run'.pc # "analyzing") =>
              /\ pc[1] = "idle"
              /\ DecisionsAligned
              /\ Len(run.decisions) = Len(run.fresh_tweets) ]_vars

\* A batch of two: the first post raised, the second was approved
C16_Witness ==
    /\ run.pc = "analyzing" /\ pc[1] = "idle"
    /\ Len(run.fresh_tweets) = 2 /\ Len(run.decisions) = 2
    /\ run.decisions[1].stage_quick = "error"
    /\ run.decisions[1].tweet_id = Mal6.tweet_id
    /\ run.decisions[2].final = "approved"

\* C17: an invocation calls the text-generation service once when the post
\* passed the quick filter and the rate-limit check, and not at all
\* otherwise; whatever the call gives, the invocation returns with it and
\* the call is not issued again.
C17_NoRetry ==
    [][ LET chk == check_rate_limits(RL, StartedTweet, now)
        IN  /\ Starts =>
                  /\ pc[1] = "idle"
                  /\ (pc'[1] = "ai_call") <=>
                        (~quick_filter(StartedTweet)[1] /\ ~chk.blocked /\ ~chk.raised)
                  /\ pc'[1] = "idle" => call'.resp = NoResponse
            /\ (pc[1] # "ai_call" /\ pc'[1] = "ai_call") => Starts
            /\ (pc[1] = "ai_call"
                  /\ <<metrics, pc, cur, decision, call>>' # <<metrics, pc, cur, decision, call>>) =>
                  /\ pc'[1] = "idle"
                  /\ metrics'.total_processed = metrics.total_processed
                  /\ call'.tweet = cur[1]
                  /\ call'.resp # NoResponse
                  /\ decision'.tweet_id = cur[1].tweet_id ]_vars

\* A call that failed, and the invocation returned the rejection
C17_Witness ==
    /\ ReachedAi /\ call.resp.kind = "api_error"
    /\ decision.final = "rejected"
    /\ pc[1] = "idle"
    /\ metrics.total_processed = 1 /\ metrics.ai_rejects = 1

\* s is t or the beginning of t
IsPrefix(s, t) == Len(s) <= Len(t) /\ SubSeq(t, 1, Len(s)) = s

\* C18: in a run the set of seen ids only gains ids and the list of
\* approved posts only gains posts at its end, so the size of neither
\* decreases, and total_analyzed of the result is the number of distinct
\* seen ids at the end.
C18_BackfillMonotone ==
    /\ [][ /\ run.seen_ids \subseteq run'.seen_ids
           /\ Cardinality(run'.seen_ids) >= Cardinality(run.seen_ids)
           /\ IsPrefix(run.approved_tweets, run'.approved_tweets) ]_vars
    /\ [](\A i \in DOMAIN attempt_logs : \A j \in DOMAIN attempt_logs :
            i < j => /\ attempt_logs[i].cum_fetched <= attempt_logs[j].cum_fetched
                     /\ attempt_logs[i].cum_approved <= attempt_logs[j].cum_approved)
    /\ [](Done => result.total_analyzed = Cardinality(run.seen_ids))

\* A run of two attempts, each of which saw new posts and approved one
C18_Witness ==
    /\ Done /\ Len(attempt_logs) = 2
    /\ attempt_logs[1].cum_fetched > 0 /\ attempt_logs[1].cum_approved > 0
    /\ attempt_logs[2].cum_fetched > attempt_logs[1].cum_fetched
    /\ attempt_logs[2].cum_approved > attempt_logs[1].cum_approved
    /\ result.total_analyzed = attempt_logs[2].cum_fetched

\* The ids of the posts of a list
Ids(tweets) == {tweets[i].tweet_id : i \in DOMAIN tweets}

\* C19: of the posts an attempt fetched, those whose id was seen in an
\* earlier attempt are dropped before the age filter and are not analysed
\* again; the ids of all the others, those the age filter drops included,
\* join the seen-set; and the posts analysed are those of fresh_tweets only.
C19_DedupAcrossAttempts ==
    /\ [][ (run.pc = "fetch" /\ run' # run) =>
              /\ run'.seen_ids = run.seen_ids \cup Ids(run'.tweets)
              /\ run'.pc = "analyzing" =>
                    /\ Ids(run'.fresh_tweets) \cap run.seen_ids = {}
                    /\ run'.fresh_tweets =
                         SelectSeq(run'.tweets,
                                   LAMBDA tw : /\ tw.tweet_id \notin run.seen_ids
                                               /\ tw.created_at # "old") ]_vars
    /\ [][ run.pc = "analyzing" =>
              /\ run'.seen_ids = run.seen_ids
              /\ run'.pc = "analyzing" => run'.fresh_tweets = run.fresh_tweets ]_vars
    /\ [](run.pc = "analyzing" =>
            /\ Ids(run.fresh_tweets) \subseteq run.seen_ids
            /\ pc[1] = "ai_call" =>
                  cur[1] = run.fresh_tweets[Len(run.decisions) + 1])

\* The second attempt fetched a post that the first had analysed, with a
\* new one, and analyses the new one only
C19_Witness ==
    /\ run.pc = "analyzing" /\ run.attempt = 2
    /\ run.tweets = <<Alice1, Bob3>>
    /\ run.fresh_tweets = <<Bob3>>
    /\ attempt_logs[1].fetched = 1 /\ attempt_logs[1].cum_fetched = 1

C20_FetchBeforeRate ==
    /\ Done /\ result.stop_reason = "max_total_fetch"
    /\ result.total_analyzed > 50
    /\ Len(run.approved_tweets) = 0

\* A step that ends an attempt: _log_attempt has written its log
AttemptEnds == Len(attempt_logs') = Len(attempt_logs) + 1

\* C21: at the end of every attempt, one that left no post to analyse
\* included, if len(seen_ids) >= target_count * max_multiplier and the
\* target is not met, the run stops at that attempt with stop reason
\* max_total_fetch.
C21_StopsAtFetchLimit ==
    [][ ( /\ AttemptEnds
          /\ Cardinality(run'.seen_ids) >= run.target_count * settings.max_multiplier
          /\ Len(run'.approved_tweets) < run.target_count )
        => (run'.pc = "done" /\ result'.stop_reason = "max_total_fetch") ]_vars

\* The posts of author a in a list of posts
PostsOf(a, tweets) == Cardinality({i \in DOMAIN tweets : tweets[i].author = a})

\* Every post fetched so far is of the first author
OneAuthorFeed == \A id \in run.seen_ids : id \div 100 = 1

\* Posts of every author of the scenario have been fetched
ManyAuthorsFeed ==
    \A j \in DOMAIN ScenarioAuthors : \E id \in run.seen_ids : id \div 100 = j

\* Scenario E, the part about one author: the approved list never holds
\* more posts of an author than the per-author cap, and a run over posts of
\* one author ends with max_attempts or max_total_fetch
ScenarioE_OneAuthor ==
    /\ \A j \in DOMAIN ScenarioAuthors :
          /\ PostsOf(ScenarioAuthors[j], run.approved_tweets) <= max_per_author_6h
          /\ PostsOf(ScenarioAuthors[j], result.approved_tweets) <= max_per_author_6h
    /\ (Done /\ OneAuthorFeed) =>
          result.stop_reason \in {"max_attempts", "max_total_fetch"}

\* C22: with target_count 5 and a per-author cap of 2, the approved list
\* never holds more than 2 posts of an author; a run over approvable posts
\* of one author ends with max_attempts or max_total_fetch; a run whose feed
\* holds approvable posts of enough distinct authors ends with target_met.
C22_ScenarioE ==
    /\ ScenarioE_OneAuthor
    /\ (Done /\ ManyAuthorsFeed) => result.stop_reason = "target_met"

\* The call of the feed client has raised or returned the empty list
NoSupply == run.pc = "fetch_raised" \/ (run.pc = "fetched" /\ run.tweets = <<>>)

\* C23: when the fetch of an attempt raises or returns the empty list, no
\* post is classified in the attempt, an attempt log with fetched = 0 is
\* written, and the run goes on to the next attempt or, after the last one,
\* returns its BackfillResult.
C23_ProviderFailureNotFatal ==
    [][ NoSupply =>
          /\ run'.pc # "analyzing"
          /\ metrics' = metrics
          /\ Len(attempt_logs') = Len(attempt_logs) + 1
          /\ attempt_logs'[Len(attempt_logs')].attempt = run.attempt
          /\ attempt_logs'[Len(attempt_logs')].fetched = 0
          /\ IF LoopContinues(run.attempt)
             THEN run'.pc = "fetch" /\ run'.attempt = run.attempt + 1
             ELSE run'.pc = "done" /\ result'.stop_reason \in StopReasons ]_vars

\* What quick_filter returned in the invocation that a step starts, as the
\* invocation shows it: a quick reject returns at once with the reason, and
\* a post that passed is rate-checked
StartedQuick ==
    IF pc'[1] = "idle" /\ call'.raised = "" /\ decision'.stage_quick = "reject"
    THEN <<TRUE, decision'.quick_reason>>
    ELSE <<FALSE, "">>

GridTexts ==
    { Text(rawLen, 5, hashtags, normLen, blacklist, tech, rt, qt) :
        rawLen \in {29, 30}, hashtags \in {2, 3}, normLen \in {14, 15},
        blacklist \in BOOLEAN, tech \in BOOLEAN, rt \in BOOLEAN, qt \in BOOLEAN }

GridTweets ==
    { MkTweet(1, "alice", t, FALSE, media) : t \in GridTexts, media \in BOOLEAN }

\* The rules of the pre-filter in their order: <<reason, the rule matches>>
QuickRules(tweet) ==
    LET t == tweet.text
        tokens == IF t.tokens = 0 THEN 1 ELSE t.tokens
        quote  == t.qt \/ tweet.media_twitter
    IN  << <<"short", t.rawLen < 30>>,
           <<"hashtag_spam", 10 * t.hashtags > 4 * tokens>>,
           <<"no_substance", t.normLen < 15>>,
           <<"blacklist_keyword", t.blacklist>>,
           <<"retweet_no_tech", t.rt /\ ~t.tech>>,
           <<"quote_no_tech", quote /\ ~t.tech>>,
           <<"no_tech_hints", ~t.tech>> >>

\* The reason of the first rule that matches, or a pass
FirstMatch(tweet) ==
    LET rules   == QuickRules(tweet)
        matches == {i \in DOMAIN rules : rules[i][2]}
    IN  IF matches = {} THEN <<FALSE, "">>
        ELSE <<TRUE, rules[CHOOSE i \in matches : \A j \in matches : i <= j][1]>>

\* raw length >= 30, hashtag ratio <= 0.4, normalized length >= 15, no
\* blacklist match, a technical keyword
QuickPasses(tweet) ==
    LET t == tweet.text
    IN  /\ t.rawLen >= 30
        /\ 10 * t.hashtags <= 4 * (IF t.tokens = 0 THEN 1 ELSE t.tokens)
        /\ t.normLen >= 15
        /\ ~t.blacklist
        /\ t.tech

C26_QuoteFlagReason ==
    LET tweet == call.tweet
        rules == QuickRules(tweet)
    IN  ( /\ Returned
          /\ tweet.is_quote /\ ~tweet.text.rt /\ ~tweet.text.tech
          /\ \A i \in 1..4 : ~rules[i][2] )
        => /\ decision.stage_quick = "reject"
           /\ decision.quick_reason = "quote_no_tech"

\* The posts of the attempt under way that analyze_tweets approved
AttemptApproved ==
    SelectSeq(run.fresh_tweets,
              LAMBDA tw : \E i \in DOMAIN run.decisions :
                             /\ run.decisions[i].tweet_id = tw.tweet_id
                             /\ run.decisions[i].final = "approved")

\* The approvals of author a inside the six-hour window, and the approvals
\* of the current hour, as the rate limiter holds them (the commits of the
\* attempt under way included)
InWindowCount(a) == Len(PruneOld(Stamps(author_approvals, a), now))

HourlyCount == IF HourElapsed(now, last_hour_reset) THEN 0 ELSE hourly_approvals

\* C27: when an attempt ends, a post that the attempt approved is kept in
\* the accumulated approved list whenever the in-window approval count of
\* its author and the hourly approval count, this attempt's approvals
\* included, do not exceed the caps.
C27_PostHocKeepsWithinCaps ==
    [][ (run.pc = "analyzing" /\ run'.pc # "analyzing") =>
          \A i \in DOMAIN AttemptApproved :
             ( /\ InWindowCount(AttemptApproved[i].author) <= max_per_author_6h
               /\ HourlyCount <= max_approvals_per_hour )
             => \E k \in DOMAIN run'.approved_tweets :
                   run'.approved_tweets[k] = AttemptApproved[i] ]_vars

\* A step in which _check_rate_limits runs: an invocation that passed the
\* quick filter starts, or _enforce_existing_caps runs at the end of an
\* attempt
ChecksRateLimits ==
    \/ Starts /\ ~StartedQuick[1]
    \/ run.pc = "analyzing" /\ run'.pc # "analyzing"

\* The step adds no approval to the rate-limit state: the hourly counter
\* does not grow and every list holds only timestamps it held before
RecordsNothing ==
    /\ hourly_approvals' <= hourly_approvals
    /\ \A a \in DOMAIN author_approvals' :
          /\ Len(author_approvals'[a]) <= Len(Stamps(author_approvals, a))
          /\ \A i \in DOMAIN author_approvals'[a] :
                \E k \in DOMAIN Stamps(author_approvals, a) :
                   author_approvals'[a][i] = author_approvals[a][k]

\* C28: a step that runs _check_rate_limits, from analyze_tweet or from
\* _enforce_existing_caps, adds nothing to the hourly counter or to an
\* author's list; the counter grows and a timestamp is added only in the
\* step in which an invocation returns the verdict approved.
C28_CheckRecordsNothing ==
    /\ [][ ChecksRateLimits => RecordsNothing ]_vars
    /\ [][ ~RecordsNothing => (Finishes /\ decision'.final = "approved") ]_vars

\* Two posts were approved in the first attempt and checked again after it:
\* the counter holds the two commits and nothing else
C28_Witness ==
    /\ Len(attempt_logs) >= 1 /\ attempt_logs[1].approved = 2
    /\ metrics.approvals = 2 /\ hourly_approvals = 2

\* After the step, the list of the author of the post just checked holds no
\* timestamp older than six hours
StartedAuthorPruned ==
    LET stamps == Stamps(author_approvals', StartedTweet.author)
    IN  \A i \in DOMAIN stamps : now - stamps[i] <= SixHoursSecs

\* The invocation that the step starts was blocked by the hourly limit
StartedHourlyBlocked ==
    /\ pc'[1] = "idle" /\ call'.rate_blocked
    /\ decision'.ai_reason = <<"hourly_limit">>

BatchEstimated ==
    LET t      == run.target_count
        a      == Len(run.approved_tweets)
        n      == Cardinality(run.seen_ids)
        needed == t - a
        base   == settings.batch_base
        IsEstimate(est) ==
            IF n = 0 THEN est = 15 * needed
            ELSE IF a = 0 THEN est = 3 * needed
            ELSE 2 * a * est <= 3 * needed * n /\ 3 * needed * n < 2 * a * (est + 1)
    IN  IF run.attempt = 1 THEN run.batch_size = Max(base, 2 * t)
        ELSE \E est \in 0..(15 * t * (n + 1)) :
                /\ IsEstimate(est)
                /\ run.batch_size = Max(base, Min(est, 4 * t))

\* C30 as stated: the batch size follows the estimate and, for all inputs,
\* lies within [batch_base, 4 * target_count].
C30_BatchSizeInRange ==
    run.pc = "sized" =>
      /\ BatchEstimated
      /\ settings.batch_base <= run.batch_size
      /\ run.batch_size <= 4 * run.target_count

\* C30, amended: the batch size follows the estimate, is never below
\* batch_base, is at most 4 * target_count when batch_base is, and is
\* batch_base when batch_base is above 4 * target_count.
C30_BatchSizeClamped ==
    run.pc = "sized" =>
      /\ BatchEstimated
      /\ settings.batch_base <= run.batch_size
      /\ settings.batch_base <= 4 * run.target_count
            => run.batch_size <= 4 * run.target_count
      /\ settings.batch_base > 4 * run.target_count
            => run.batch_size = settings.batch_base

\* A later attempt whose estimate, from a rate above zero, lies strictly
\* between the two limits
C30_Witness ==
    /\ run.pc = "sized" /\ run.attempt = 2
    /\ Len(run.approved_tweets) > 0
    /\ settings.batch_base < run.batch_size
    /\ run.batch_size < 4 * run.target_count

-----------------------------------------------------------------------------
(* Hybrid mode *)

\* The attempt has computed its portions and the list feed has answered
PortionsSet == run.source_type = "hybrid" /\ run.pc = "list_fetched"

\* The post is one that search returned
FromSearch(tw) == tw.tweet_id \in SearchBase..(FillerBase - 1)

\* In the combined batch the list results come first
ListResultsFirst ==
    (run.source_type = "hybrid" /\ run.pc = "analyzing") =>
        \A i, j \in DOMAIN run.tweets :
            (i < j /\ FromSearch(run.tweets[i])) => FromSearch(run.tweets[j])

\* C31: in hybrid mode the sub-request sent to the list feed is at least half
\* of the batch size, the list and search sub-requests sum to the batch
\* size, and in the combined batch every list result precedes every search
\* result.
C31_HybridSplit ==
    /\ PortionsSet =>
          /\ 2 * run.list_portion >= run.batch_size
          /\ run.list_portion + run.search_portion = run.batch_size
    /\ ListResultsFirst

-----------------------------------------------------------------------------
(* Age ceiling *)

\* The post is older than max_window_min minutes
OlderThanCeiling(tw) == tw.created_at \in {"old", "old_west", "old_noformat"}

NoneOlder(tweets) == \A i \in DOMAIN tweets : ~OlderThanCeiling(tweets[i])

\* C32: no post older than max_window_min minutes is passed to the Decision
\* Engine or enters the approved list, whatever the current window; such
\* posts are still added to the seen-set and counted in total_analyzed.
C32_AgeCeiling ==
    /\ NoneOlder(run.fresh_tweets)
    /\ pc[1] # "idle" => ~OlderThanCeiling(cur[1])
    /\ NoneOlder(run.approved_tweets)
    /\ NoneOlder(result.approved_tweets)
    /\ run.pc \in {"analyzing", "done"} =>
          \A i \in DOMAIN run.tweets : run.tweets[i].tweet_id \in run.seen_ids

\* The posts that parse and are before the cutoff are kept out, and seen
C32_ParsedOldKeptOut ==
    /\ \A i \in DOMAIN run.fresh_tweets : run.fresh_tweets[i].created_at # "old"
    /\ \A i \in DOMAIN result.approved_tweets : result.approved_tweets[i].created_at # "old"
    /\ run.pc \in {"analyzing", "done"} =>
          \A i \in DOMAIN run.tweets : run.tweets[i].tweet_id \in run.seen_ids

-----------------------------------------------------------------------------
(* Window doubling *)

RECURSIVE Pow2(_)
Pow2(k) == IF k = 0 THEN 1 ELSE 2 * Pow2(k - 1)

\* The window the k-th attempt has when every attempt before it doubled it
DoubledWindow(k) == Min(settings.max_window_min, settings.start_window_min * Pow2(k - 1))

\* C33: whenever an attempt ends without a stop condition firing, the window
\* of the next attempt is min(max_window_min, 2 * current window), so the
\* window at attempt k is min(max_window_min, start_window_min * 2^(k-1)),
\* and window_minutes_final never exceeds max_window_min.
C33_WindowDoubles ==
    /\ [](run.pc \in {"fetch", "analyzing"} => run.window_minutes = DoubledWindow(run.attempt))
    /\ [](result.window_minutes_final <= settings.max_window_min)
    /\ [][ (AttemptEnds /\ run'.pc = "fetch")
           => run'.window_minutes = Min(settings.max_window_min, 2 * run.window_minutes) ]_vars

\* The window never exceeds the ceiling and never shrinks
C33_WindowWithinCeiling ==
    /\ [](run.window_minutes <= settings.max_window_min)
    /\ [](result.window_minutes_final <= settings.max_window_min)
    /\ [][run.pc # "off" => run'.window_minutes >= run.window_minutes]_vars

-----------------------------------------------------------------------------
(* Low approval rate *)

\* approved / seen < min_approval_rate
RateBelowFloor(n_approved, n_seen) == 100 * n_approved < settings.min_approval_rate_pct * n_seen

\* A run stops with low_approval_rate only after more than 50 posts were seen
LowApprovalNeedsData ==
    (Done /\ result.stop_reason = "low_approval_rate") => result.total_analyzed > 50

\* C34: a run never stops with low_approval_rate while len(seen_ids) <= 50,
\* and when after an attempt len(seen_ids) > 50, neither target_met nor
\* max_total_fetch fired, and approved / seen is below min_approval_rate,
\* the run stops with low_approval_rate.
C34_LowApprovalStop ==
    /\ []LowApprovalNeedsData
    /\ [][ ( /\ AttemptEnds
             /\ Cardinality(run'.seen_ids) > 50
             /\ Len(run'.approved_tweets) < run.target_count
             /\ Cardinality(run'.seen_ids) < run.target_count * settings.max_multiplier
             /\ RateBelowFloor(Len(run'.approved_tweets), Cardinality(run'.seen_ids)) )
           => (run'.pc = "done" /\ result'.stop_reason = "low_approval_rate") ]_vars

\* The low-approval stop at the end of an attempt that analysed posts
C34_LowApprovalStopAfterAnalysis ==
    /\ []LowApprovalNeedsData
    /\ [][ ( /\ AttemptEnds
             /\ run.pc = "analyzing"
             /\ Cardinality(run'.seen_ids) > 50
             /\ Len(run'.approved_tweets) < run.target_count
             /\ Cardinality(run'.seen_ids) < run.target_count * settings.max_multiplier
             /\ RateBelowFloor(Len(run'.approved_tweets), Cardinality(run'.seen_ids)) )
           => (run'.pc = "done" /\ result'.stop_reason = "low_approval_rate") ]_vars

-----------------------------------------------------------------------------
(* Attempt logs *)

\* A step of an attempt that ends it: the next attempt begins or the run
\* returns
LeavesAttempt ==
    /\ run.pc \in {"fetch", "analyzing"}
    /\ run'.pc = "done" \/ run'.attempt # run.attempt

\* The step appends one log, of the attempt it ends
LogsAttempt ==
    /\ Len(attempt_logs') = Len(attempt_logs) + 1
    /\ SubSeq(attempt_logs', 1, Len(attempt_logs)) = attempt_logs
    /\ attempt_logs'[Len(attempt_logs')].attempt = run.attempt

\* Between two logs of one run the cumulative counts do not decrease
CumulativeNonDecreasing ==
    \A i \in 1..(Len(attempt_logs) - 1) :
        attempt_logs[i + 1].attempt > 1 =>
            /\ attempt_logs[i].cum_fetched <= attempt_logs[i + 1].cum_fetched
            /\ attempt_logs[i].cum_approved <= attempt_logs[i + 1].cum_approved

\* Every attempt writes exactly one log, and nothing else writes one
OneLogPerAttempt ==
    [][ /\ LeavesAttempt => LogsAttempt
        /\ attempt_logs' # attempt_logs => LeavesAttempt ]_vars

\* C35: each attempt of a run records exactly one Attempt Log entry whose
\* cumulative fetched and approved counts are non-decreasing over the run,
\* and after a run completes get_telemetry_summary reports attempts_made
\* equal to the number of attempts that run executed.
C35_TelemetryPerRun ==
    /\ OneLogPerAttempt
    /\ []CumulativeNonDecreasing
    /\ [](Done => get_telemetry_summary(attempt_logs).attempts_made = result.attempts_made)

\* The logs themselves are as the claim says
C35_LogsPerAttempt == OneLogPerAttempt /\ []CumulativeNonDecreasing

-----------------------------------------------------------------------------
(* Duplicate ids *)

\* No two posts of the list have the same id
DistinctIds(tweets) ==
    \A i, j \in DOMAIN tweets : tweets[i].tweet_id = tweets[j].tweet_id => i = j

\* C36: within one run no post id is passed to the Decision Engine more than
\* once, even when one fetched batch holds the same id twice; so the
\* approved list never holds two posts with the same id.  The posts passed
\* to analyze_tweets in an attempt are fresh_tweets.
C36_NoIdTwice ==
    /\ DistinctIds(run.fresh_tweets)
    /\ DistinctIds(run.approved_tweets)
    /\ DistinctIds(result.approved_tweets)

-----------------------------------------------------------------------------
(* Approved posts and their decisions *)

\* The posts the step appends to the approved list
Added == SubSeq(run'.approved_tweets, Len(run.approved_tweets) + 1, Len(run'.approved_tweets))

\* The decisions of the attempt for id that are approvals
ApprovedDecisions(id) ==
    {i \in DOMAIN run.decisions :
        run.decisions[i].tweet_id = id /\ run.decisions[i].final = "approved"}

\* C37: every post placed in the approved list is a post whose own Filter
\* Decision in that run had final = 'approved'; a post whose decision was
\* 'rejected' never enters the approved list.  Each post appended at the end
\* of an attempt has an approval of its own among the attempt's decisions.
C37_ApprovedByOwnDecision ==
    [][ /\ run'.approved_tweets # run.approved_tweets =>
              /\ run.pc = "analyzing"
              /\ IsPrefix(run.approved_tweets, run'.approved_tweets)
              /\ \A k \in DOMAIN Added :
                    Cardinality({m \in DOMAIN Added : Added[m].tweet_id = Added[k].tweet_id})
                       <= Cardinality(ApprovedDecisions(Added[k].tweet_id))
        /\ run'.pc = "done" => IsPrefix(result'.approved_tweets, run'.approved_tweets) ]_vars

\* Every post appended has an id that some decision of the attempt approved
C37_ApprovedIdsOnly ==
    [][ run'.approved_tweets # run.approved_tweets =>
           /\ run.pc = "analyzing"
           /\ IsPrefix(run.approved_tweets, run'.approved_tweets)
           /\ \A k \in DOMAIN Added : ApprovedDecisions(Added[k].tweet_id) # {} ]_vars

-----------------------------------------------------------------------------
(* Stop reason and result size *)

\* C38: for target_count >= 1, stop_reason = target_met iff the returned
\* approved list holds exactly target_count posts, and with any other stop
\* reason it holds fewer than target_count posts.
C38_StopReasonAgreesWithSize ==
    (Done /\ run.target_count >= 1) =>
        /\ result.stop_reason \in StopReasons
        /\ result.stop_reason = "target_met"
              <=> Len(result.approved_tweets) = run.target_count
        /\ result.stop_reason # "target_met"
              => Len(result.approved_tweets) < run.target_count

\* A run that stopped for another reason, one approved post short of its
\* target
C38_Witness ==
    /\ Done /\ result.stop_reason \in StopReasons \ {"target_met"}
    /\ Len(result.approved_tweets) >= 1
    /\ Len(result.approved_tweets) = run.target_count - 1

-----------------------------------------------------------------------------
(* Letter case of the author handle *)

\* The author whose handle h is, in whatever letter case it is written
AuthorOf(h) ==
    CASE h \in {"Alice", "alice", "ALICE"} -> "alice"
      [] h \in {"bob", "Bob"} -> "bob"

\* The approvals committed in (t - len, t] for handles of the author of h
ApprovalsOfAnyCase(h, t, len) ==
    Cardinality({i \in DOMAIN approval_log :
                   /\ AuthorOf(approval_log[i].author) = AuthorOf(h)
                   /\ approval_log[i].time > t - len
                   /\ approval_log[i].time <= t})

\* C39: per-author rate limiting is case-insensitive in the author handle:
\* approvals committed for handles that differ only in letter case are
\* recorded under one key and count against the same per-author cap, in both
\* the check and the commit.
C39_CaseInsensitiveCap ==
    /\ \A k \in DOMAIN author_approvals : k \in CaseHandles /\ k = AuthorOf(k)
    /\ \A h \in CaseHandles :
          /\ ApprovalsOfAnyCase(h, now, SixHoursSecs)
                <= Len(Stamps(author_approvals, AuthorOf(h)))
          /\ \A t \in WindowEnds : ApprovalsOfAnyCase(h, t, SixHoursSecs) <= max_per_author_6h

\* Approvals of 'Alice' and 'alice' fill the cap and a post of 'ALICE' is
\* blocked by the per-author limit
C39_Witness ==
    /\ \E i, j \in DOMAIN approval_log :
          approval_log[i].author = "Alice" /\ approval_log[j].author = "alice"
    /\ call.rate_blocked /\ call.tweet.author = "ALICE"
    /\ metrics.per_author_blocks = 1
    /\ DOMAIN author_approvals = {"alice"}

====
